---- MODULE Spec2Model ----
(***************************************************************************)
(* Staff Identity & Access Control core of the staff backend               *)
(* (apps/staff-backend): the staff table with its lockout columns, the     *)
(* role assignments, the bearer tokens the clients hold, and one action    *)
(* per HTTP route.  A request is served in one step: the middleware chain  *)
(* of its route followed by the controller method.  The audit row of a     *)
(* request is written later, by the callback logActivity schedules.  Time  *)
(* is counted in minutes.                                                  *)
(***************************************************************************)
EXTENDS Integers, Sequences, FiniteSets, TLC

VARIABLES
  staff,        \* table staff: id -> row, for the ids that have a row
  assignments,  \* table staff_role_assignments: set of <<staff_id, role_id>>
  nextId,       \* the next id uuid_generate_v4() hands out
  tokens,       \* the tokens issued by login that clients still hold
  now,          \* the clock (NOW() / new Date()), in minutes
  budget,       \* how many more requests may change the store or issue a token
  last,         \* the request served last: its inputs, what it read, its response
  pending,      \* the setImmediate callbacks of logActivity that have not run yet
  log,          \* table staff_activity_logs, in insertion order
  up,           \* the server process is running
  logRoom,      \* how many more rows staff_activity_logs takes before its INSERT fails
  creating,     \* create requests between their findByEmail and their INSERT
  dbUp,         \* the database answers queries
  loggingIn,    \* login requests between their findByEmailWithPassword and their write
  client,       \* an AKAClient and the request it is making
  mcp,          \* an MCPSessionManager: its fields, its socket and its timers
  flow          \* a PartnerOnboardingFlow: its onboarding state

\* the staff backend (apps/staff-backend)
backend == <<staff, assignments, nextId, tokens, now, budget, last, pending, log,
             up, logRoom, creating, dbUp, loggingIn>>

\* the objects of packages/sdk-core and apps/partner-portal
sdk == <<client, mcp, flow>>

vars == <<staff, assignments, nextId, tokens, now, budget, last, pending, log, up,
          logRoom, creating, dbUp, loggingIn, client, mcp, flow>>

-----------------------------------------------------------------------------
(* Bounds of the model *)

MaxTime == 30         \* the clock stops here
MaxWrites == 3        \* requests of one behaviour that change the store or issue a token
MaxLockoutWrites == 7 \* the same, in the lockout specification
MaxAccessWrites == 4  \* the same, in the interceptor specification
MaxStaff == 2         \* rows ever inserted into staff, the seeded admin included
MaxHeld == 2          \* tokens the clients keep
MaxFailed == 7        \* cap of failed_login_attempts
TokenLifetime == 30   \* JWT_EXPIRES_IN, in minutes
MaxRoleWrites == 5    \* the same, in the permission specification
MaxAuditWrites == 4   \* writes of one behaviour in the audit specification
MaxEmailWrites == 3   \* writes of one behaviour in the email specification
MaxInFlight == 2      \* requests in flight between their read and their write
MaxLogged == 1        \* rows staff_activity_logs takes in the audit specification
MaxOutageWrites == 4  \* writes in the store-outage specification
MaxRetries == 2       \* the largest config.retries a client is constructed with
MaxSockets == 6       \* WebSockets one manager opens
MaxRaceWrites == 6    \* writes in the concurrent-login specification

TickSteps == {30}

(* Program constants *)

LOCK_THRESHOLD == 4   \* WHEN failed_login_attempts >= 4
LOCK_MINUTES == 30    \* NOW() + INTERVAL '30 minutes'
DEFAULT_RETRIES == 3  \* retries: config.retries || 3
MAX_RECONNECT_ATTEMPTS == 5
MIN_PASSWORD == 8     \* z.string().min(8) / password policy

NULL == 0 - 1          \* SQL NULL / undefined in a timestamp or id column
NA == "n/a"            \* an input the route does not take

\* the result of a query that selected no row
NoRow == [found |-> FALSE]

\* a request without an Authorization: Bearer header
NoBearer ==
  [staffId |-> NULL, email |-> NA, isAdmin |-> FALSE, permissions |-> {},
   exp |-> NULL, sig |-> "none"]

\* req.staff of a request no identity was attached to
NoStaff == [id |-> NULL, email |-> NA, isAdmin |-> FALSE, permissions |-> {}]

\* a response body without a token
NoToken == NoBearer

-----------------------------------------------------------------------------
(* Input alphabets *)

ADMIN_ID == 1
ADMIN_EMAIL == "admin@akaind.ca"
ADMIN_PASSWORD == <<"A", "d", "m", "i", "n", "@", "1", "2", "3">>
OTHER_PASSWORD == <<"S", "e", "c", "u", "r", "e", "1", "!", "A">>
WEAK_PASSWORD == <<"A", "b", "c", "d", "e", "f", "g", "h">>
SHORT_PASSWORD == <<"a", "b", "c">>
EMPTY_PASSWORD == <<>>

KnownEmails == {ADMIN_EMAIL, "b@x.com"}
EmailInputs == KnownEmails \cup {"not-an-email"}
GoodPasswords == {ADMIN_PASSWORD, OTHER_PASSWORD}
LoginPasswords == GoodPasswords \cup {EMPTY_PASSWORD}
NewPasswords == {ADMIN_PASSWORD, OTHER_PASSWORD, WEAK_PASSWORD, SHORT_PASSWORD}
StatusValues == {"active", "inactive", "suspended"}
StatusInputs == StatusValues \cup {NA}

Upper == {"A", "S"}
Lower == {"a", "b", "c", "d", "e", "f", "g", "h", "i", "m", "n", "r", "u"}
Digit == {"1", "2", "3"}

\* A permission scope "resource:action" is the sequence of its segments between
\* the colons; "*" is the one-segment scope
Scope(resource, action) == <<resource, action>>
STAR == <<"*">>

\* staff_roles as seeded: name -> permissions
Roles ==
  [r \in {"Super Admin", "Admin", "Manager", "Staff", "Support"} |->
     CASE r = "Super Admin" -> {STAR}
       [] r = "Admin" -> {Scope("staff", "*"), Scope("roles", "*"),
                          Scope("departments", "*"), Scope("settings", "*")}
       [] r = "Manager" -> {Scope("staff", "read"), Scope("staff", "update"),
                            Scope("reports", "read"), Scope("departments", "read")}
       [] r = "Staff" -> {Scope("profile", "read"), Scope("profile", "update")}
       [] r = "Support" -> {Scope("tenants", "read"), Scope("tenants", "update"),
                            Scope("tickets", "*"), Scope("users", "read")}]

RoleInputs == {"Manager", "Admin", "no-such-role"}

StaffIds == 1..MaxStaff

-----------------------------------------------------------------------------
(* utils/auth: password hashing, password policy, tokens *)

\* bcrypt digest of a password: a value that only records which password it
\* was computed from
hashPassword(pw) == [bcrypt |-> pw]

verifyPassword(pw, hash) == hash.bcrypt = pw

IsSymbol(c) == c \notin (Upper \cup Lower \cup Digit)

HasChar(pw, class) == \E i \in 1..Len(pw) : pw[i] \in class

validatePassword(pw) ==
  LET errors ==
        (IF Len(pw) < MIN_PASSWORD THEN {"length"} ELSE {})
        \cup (IF HasChar(pw, Upper) THEN {} ELSE {"uppercase"})
        \cup (IF HasChar(pw, Lower) THEN {} ELSE {"lowercase"})
        \cup (IF HasChar(pw, Digit) THEN {} ELSE {"number"})
        \cup (IF \E i \in 1..Len(pw) : IsSymbol(pw[i]) THEN {} ELSE {"special"})
  IN [valid |-> errors = {}, errors |-> errors]

\* jwt.sign(payload, JWT_SECRET, {expiresIn})
generateToken(payload, t) ==
  [staffId |-> payload.staffId, email |-> payload.email, isAdmin |-> payload.isAdmin,
   permissions |-> payload.permissions, exp |-> t + TokenLifetime, sig |-> "secret"]

\* jwt.verify(token, JWT_SECRET) returns the payload; it throws on a bad
\* signature and on an expired token alike
TokenVerifies(token, t) == token.sig = "secret" /\ t < token.exp

\* a token signed with another key, claiming to be the administrator
ForgedToken ==
  [staffId |-> ADMIN_ID, email |-> ADMIN_EMAIL, isAdmin |-> TRUE,
   permissions |-> {STAR}, exp |-> MaxTime + TokenLifetime, sig |-> "other"]

-----------------------------------------------------------------------------
(* models/staff.model.ts: StaffModel, over the tables *)

NewRow(email, password, createdBy) ==
  [email |-> email, passwordHash |-> hashPassword(password), status |-> "active",
   isSuperAdmin |-> FALSE, failedLoginAttempts |-> 0, lockedUntil |-> NULL,
   lastLoginAt |-> NULL, passwordChangedAt |-> NULL,
   createdBy |-> createdBy, updatedBy |-> NULL]

\* the columns findById / findByEmail select
StaffView(id, row) ==
  [found |-> TRUE, id |-> id, email |-> row.email, status |-> row.status,
   isSuperAdmin |-> row.isSuperAdmin, lastLoginAt |-> row.lastLoginAt]

\* the columns findByEmailWithPassword selects
StaffSecretView(id, row) ==
  [found |-> TRUE, id |-> id, email |-> row.email, status |-> row.status,
   isSuperAdmin |-> row.isSuperAdmin, lastLoginAt |-> row.lastLoginAt,
   passwordHash |-> row.passwordHash,
   failedLoginAttempts |-> row.failedLoginAttempts, lockedUntil |-> row.lockedUntil]

findById(tbl, id) ==
  IF id \in DOMAIN tbl THEN StaffView(id, tbl[id]) ELSE NoRow

findByEmail(tbl, email) ==
  LET ids == {i \in DOMAIN tbl : tbl[i].email = email}
  IN IF ids = {} THEN NoRow ELSE LET i == CHOOSE i \in ids : TRUE IN StaffView(i, tbl[i])

findByEmailWithPassword(tbl, email) ==
  LET ids == {i \in DOMAIN tbl : tbl[i].email = email}
  IN IF ids = {} THEN NoRow
     ELSE LET i == CHOOSE i \in ids : TRUE IN StaffSecretView(i, tbl[i])

updateLastLoginKeepLock(tbl, id, t) ==
  IF id \notin DOMAIN tbl THEN tbl
  ELSE [tbl EXCEPT ![id].lastLoginAt = t, ![id].failedLoginAttempts = 0]

updateLastLogin(tbl, id, t) ==
  IF id \notin DOMAIN tbl THEN tbl
  ELSE [tbl EXCEPT ![id].lastLoginAt = t,
                   ![id].failedLoginAttempts = 0,
                   ![id].lockedUntil = NULL]

incrementFailedLoginsLate(tbl, id, t) ==
  IF id \notin DOMAIN tbl THEN tbl
  ELSE [tbl EXCEPT ![id].failedLoginAttempts = @ + 1,
                   ![id].lockedUntil =
                      IF tbl[id].failedLoginAttempts > LOCK_THRESHOLD
                      THEN t + LOCK_MINUTES ELSE @]

incrementFailedLoginsEarly(tbl, id, t) ==
  IF id \notin DOMAIN tbl THEN tbl
  ELSE [tbl EXCEPT ![id].failedLoginAttempts = @ + 1,
                   ![id].lockedUntil =
                      IF tbl[id].failedLoginAttempts + 1 >= LOCK_THRESHOLD
                      THEN t + LOCK_MINUTES ELSE @]

incrementFailedLogins(tbl, id, t) ==
  IF id \notin DOMAIN tbl THEN tbl
  ELSE [tbl EXCEPT ![id].failedLoginAttempts = @ + 1,
                   ![id].lockedUntil =
                      IF tbl[id].failedLoginAttempts >= LOCK_THRESHOLD
                      THEN t + LOCK_MINUTES ELSE @]

getPermissionsOneRole(asg, staffId) ==
  LET mine == {x \in asg : x.staffId = staffId}
  IN IF mine = {} THEN {} ELSE Roles[(CHOOSE a \in mine : TRUE).roleId]

\* SELECT DISTINCT unnest(r.permissions) ... JOIN staff_role_assignments
getPermissions(asg, staffId) ==
  UNION {Roles[a.roleId] : a \in {x \in asg : x.staffId = staffId}}

updateUnlocks(tbl, id, data) ==
  IF id \notin DOMAIN tbl THEN tbl
  ELSE [tbl EXCEPT ![id].status = IF data.status = NA THEN @ ELSE data.status,
                   ![id].failedLoginAttempts = IF data.status = "active" THEN 0 ELSE @,
                   ![id].updatedBy = IF data.updatedBy = NULL THEN @ ELSE data.updatedBy]

\* UPDATE staff SET ... WHERE id = $n RETURNING ...; data.status is NA when the
\* request does not set it
update(tbl, id, data) ==
  IF id \notin DOMAIN tbl THEN tbl
  ELSE [tbl EXCEPT ![id].status = IF data.status = NA THEN @ ELSE data.status,
                   ![id].updatedBy = IF data.updatedBy = NULL THEN @ ELSE data.updatedBy]

updatePassword(tbl, id, newPassword, t) ==
  IF id \notin DOMAIN tbl THEN tbl
  ELSE [tbl EXCEPT ![id].passwordHash = hashPassword(newPassword),
                   ![id].passwordChangedAt = t]

\* INSERT INTO staff ...: the row gets a fresh id, the column defaults, created_by
create(tbl, id, data) ==
  [i \in DOMAIN tbl \cup {id} |->
     IF i = id THEN NewRow(data.email, data.password, data.createdBy) ELSE tbl[i]]

\* created_by, updated_by and assigned_by REFERENCES staff(id) without an
\* ON DELETE action: a row another row still refers to cannot be deleted
Referenced(tbl, asg, id) ==
  \/ \E j \in DOMAIN tbl \ {id} : tbl[j].createdBy = id \/ tbl[j].updatedBy = id
  \/ \E a \in asg : a.staffId # id /\ a.assignedBy = id

\* DELETE FROM staff WHERE id = $1
delete(tbl, id) == [i \in DOMAIN tbl \ {id} |-> tbl[i]]

\* staff_role_assignments.staff_id REFERENCES staff(id) ON DELETE CASCADE
deleteCascade(asg, id) == {a \in asg : a.staffId # id}

\* role_id REFERENCES staff_roles(id)
assignRoleThrows(roleId) == roleId \notin DOMAIN Roles

assignRoleNoop(asg, staffId, roleId, assignedBy) == asg

assignRoleDuplicates(asg, staffId, roleId, assignedBy) ==
  asg \cup {[staffId |-> staffId, roleId |-> roleId, assignedBy |-> assignedBy]}

\* INSERT ... ON CONFLICT (staff_id, role_id) DO NOTHING
assignRole(asg, staffId, roleId, assignedBy) ==
  IF \E a \in asg : a.staffId = staffId /\ a.roleId = roleId
  THEN asg
  ELSE asg \cup {[staffId |-> staffId, roleId |-> roleId, assignedBy |-> assignedBy]}

removeRoleAll(asg, staffId, roleId) == {a \in asg : a.staffId # staffId}

\* DELETE FROM staff_role_assignments WHERE staff_id = $1 AND role_id = $2
removeRole(asg, staffId, roleId) ==
  {a \in asg : ~(a.staffId = staffId /\ a.roleId = roleId)}

-----------------------------------------------------------------------------
(* middleware/auth.middleware.ts *)

Reject(status, error) ==
  [next |-> FALSE, status |-> status, error |-> error, reqStaff |-> NoStaff]

authenticateStaffNoStatus(bearer, tbl, t) ==
  IF bearer.sig = "none"
  THEN Reject(401, "No authentication token provided")
  ELSE IF ~TokenVerifies(bearer, t)
  THEN Reject(401, "Invalid or expired authentication token")
  ELSE IF ~findById(tbl, bearer.staffId).found
  THEN Reject(401, "Staff member not found")
  ELSE [next |-> TRUE, status |-> 200, error |-> NA,
        reqStaff |-> [id |-> bearer.staffId, email |-> bearer.email,
                      isAdmin |-> bearer.isAdmin, permissions |-> bearer.permissions]]

authenticateStaffAdminBypass(bearer, tbl, t) ==
  IF bearer.sig = "none"
  THEN Reject(401, "No authentication token provided")
  ELSE IF ~TokenVerifies(bearer, t)
  THEN Reject(401, "Invalid or expired authentication token")
  ELSE LET s == findById(tbl, bearer.staffId) IN
       IF ~s.found
       THEN Reject(401, "Staff member not found")
       ELSE IF s.status # "active" /\ ~bearer.isAdmin
       THEN Reject(403, "Staff account is not active")
       ELSE [next |-> TRUE, status |-> 200, error |-> NA,
             reqStaff |-> [id |-> bearer.staffId, email |-> bearer.email,
                           isAdmin |-> bearer.isAdmin,
                           permissions |-> bearer.permissions]]

authenticateStaffOnly401(bearer, tbl, t) ==
  IF bearer.sig = "none"
  THEN Reject(401, "No authentication token provided")
  ELSE IF ~TokenVerifies(bearer, t)
  THEN Reject(401, "Invalid or expired authentication token")
  ELSE LET s == findById(tbl, bearer.staffId) IN
       IF ~s.found \/ s.status # "active"
       THEN Reject(401, "Staff member not found")
       ELSE [next |-> TRUE, status |-> 200, error |-> NA,
             reqStaff |-> [id |-> bearer.staffId, email |-> bearer.email,
                           isAdmin |-> bearer.isAdmin,
                           permissions |-> bearer.permissions]]

authenticateStaffLiveScopes(bearer, tbl, t) ==
  IF bearer.sig = "none"
  THEN Reject(401, "No authentication token provided")
  ELSE IF ~TokenVerifies(bearer, t)
  THEN Reject(401, "Invalid or expired authentication token")
  ELSE LET s == findById(tbl, bearer.staffId) IN
       IF ~s.found
       THEN Reject(401, "Staff member not found")
       ELSE IF s.status # "active"
       THEN Reject(403, "Staff account is not active")
       ELSE [next |-> TRUE, status |-> 200, error |-> NA,
             reqStaff |-> [id |-> bearer.staffId, email |-> bearer.email,
                           isAdmin |-> bearer.isAdmin,
                           permissions |-> getPermissions(assignments, bearer.staffId)]]

authenticateStaffTellsExpiry(bearer, tbl, t) ==
  IF bearer.sig = "none"
  THEN Reject(401, "No authentication token provided")
  ELSE IF bearer.sig # "secret"
  THEN Reject(401, "Invalid or expired authentication token")
  ELSE IF ~TokenVerifies(bearer, t)
  THEN Reject(401, "Authentication token has expired")
  ELSE LET s == findById(tbl, bearer.staffId) IN
       IF ~s.found
       THEN Reject(401, "Staff member not found")
       ELSE IF s.status # "active"
       THEN Reject(403, "Staff account is not active")
       ELSE [next |-> TRUE, status |-> 200, error |-> NA,
             reqStaff |-> [id |-> bearer.staffId, email |-> bearer.email,
                           isAdmin |-> bearer.isAdmin,
                           permissions |-> bearer.permissions]]

\* verifyToken and StaffModel.findById sit in one inner try: what either throws,
\* a failed query included, is answered by the same catch
authenticateStaff(bearer, tbl, t) ==
  IF bearer.sig = "none"
  THEN Reject(401, "No authentication token provided")
  ELSE IF ~TokenVerifies(bearer, t) \/ ~dbUp
  THEN Reject(401, "Invalid or expired authentication token")
  ELSE LET s == findById(tbl, bearer.staffId) IN
       IF ~s.found
       THEN Reject(401, "Staff member not found")
       ELSE IF s.status # "active"
       THEN Reject(403, "Staff account is not active")
       ELSE [next |-> TRUE, status |-> 200, error |-> NA,
             reqStaff |-> [id |-> bearer.staffId, email |-> bearer.email,
                           isAdmin |-> bearer.isAdmin,
                           permissions |-> bearer.permissions]]

\* `${resource}:*` with [resource, action] = permission.split(':')
WildcardOf(permission) == <<permission[1], "*">>

requirePermissionNoWildcard(permission, reqStaff) ==
  IF reqStaff.id = NULL
  THEN Reject(401, "Authentication required")
  ELSE IF STAR \in reqStaff.permissions \/ permission \in reqStaff.permissions
  THEN [next |-> TRUE, status |-> 200, error |-> NA, reqStaff |-> reqStaff]
  ELSE [next |-> FALSE, status |-> 403, error |-> "Insufficient permissions",
        reqStaff |-> reqStaff]

requirePermission(permission, reqStaff) ==
  IF reqStaff.id = NULL
  THEN Reject(401, "Authentication required")
  ELSE IF STAR \in reqStaff.permissions
          \/ permission \in reqStaff.permissions
          \/ WildcardOf(permission) \in reqStaff.permissions
  THEN [next |-> TRUE, status |-> 200, error |-> NA, reqStaff |-> reqStaff]
  ELSE [next |-> FALSE, status |-> 403, error |-> "Insufficient permissions",
        reqStaff |-> reqStaff]

\* requireAdmin: 401 without req.staff; 403 unless req.staff.isAdmin or
\* req.staff.permissions.includes('*'); next() otherwise
requireAdminLetsStaff(reqStaff) ==
  IF reqStaff.id = NULL
  THEN Reject(401, "Authentication required")
  ELSE [next |-> TRUE, status |-> 200, error |-> NA, reqStaff |-> reqStaff]

requireAdmin(reqStaff) ==
  IF reqStaff.id = NULL
  THEN Reject(401, "Authentication required")
  ELSE IF ~reqStaff.isAdmin /\ STAR \notin reqStaff.permissions
  THEN [next |-> FALSE, status |-> 403, error |-> "Admin access required",
        reqStaff |-> reqStaff]
  ELSE [next |-> TRUE, status |-> 200, error |-> NA, reqStaff |-> reqStaff]

\* router.use(authenticateStaff), then the route's requirePermission if it has one
Gate(bearer, permission, tbl, t) ==
  LET a == authenticateStaff(bearer, tbl, t) IN
  IF ~a.next \/ permission = <<>> THEN a
  ELSE requirePermission(permission, a.reqStaff)

\* optionalAuth: without a header next() and return; otherwise verifyToken and
\* StaffModel.findById in a try whose catch only logs, req.staff set inside it
\* for an active account, and one next() after it.  nexts counts the calls of
\* next().
optionalAuthAnyStatus(bearer, tbl, t) ==
  IF bearer.sig = "none"
  THEN [nexts |-> 1, reqStaff |-> NoStaff]
  ELSE IF ~TokenVerifies(bearer, t) \/ ~dbUp
  THEN [nexts |-> 1, reqStaff |-> NoStaff]
  ELSE IF findById(tbl, bearer.staffId).found
  THEN [nexts |-> 1,
        reqStaff |-> [id |-> bearer.staffId, email |-> bearer.email,
                      isAdmin |-> bearer.isAdmin, permissions |-> bearer.permissions]]
  ELSE [nexts |-> 1, reqStaff |-> NoStaff]

optionalAuth(bearer, tbl, t) ==
  IF bearer.sig = "none"
  THEN [nexts |-> 1, reqStaff |-> NoStaff]
  ELSE IF ~TokenVerifies(bearer, t) \/ ~dbUp
  THEN [nexts |-> 1, reqStaff |-> NoStaff]
  ELSE LET s == findById(tbl, bearer.staffId) IN
       IF s.found /\ s.status = "active"
       THEN [nexts |-> 1,
             reqStaff |-> [id |-> bearer.staffId, email |-> bearer.email,
                           isAdmin |-> bearer.isAdmin,
                           permissions |-> bearer.permissions]]
       ELSE [nexts |-> 1, reqStaff |-> NoStaff]

-----------------------------------------------------------------------------
(* The objects of packages/sdk-core and apps/partner-portal as constructed *)

\* no AKAClient has been constructed; given is config.retries as passed to
\* the constructor
NoClient ==
  [given |-> NULL, retries |-> NULL, pc |-> "none", method |-> NA, attempt |-> 0, fetches |-> 0,
   slept |-> <<>>, lastError |-> NA, thrown |-> NA]

\* new MCPSessionManager(): ws = null, session = null, reconnectAttempts = 0,
\* heartbeatInterval = null; no socket, no interval and no timeout exists
NewManager ==
  [ws |-> 0, session |-> "none", reconnectAttempts |-> 0, heartbeatInterval |-> FALSE,
   sockets |-> <<>>, intervals |-> 0, timers |-> 0]

\* new PartnerOnboardingFlow(): { currentStep: 'profile', completed: false }
NewFlow ==
  [currentStep |-> "profile", profile |-> FALSE,
   verification |-> [defined |-> FALSE, emailVerified |-> FALSE,
                     phoneVerified |-> FALSE, businessVerified |-> FALSE],
   appSubmission |-> FALSE, revenueShare |-> FALSE, completed |-> FALSE]

-----------------------------------------------------------------------------
(* The request served last *)

NoRequest ==
  [route |-> "none", bearer |-> NoBearer, email |-> NA, password |-> <<>>,
   newPassword |-> <<>>, target |-> NULL, roleId |-> NA, data |-> NA, at |-> 0,
   status |-> 0, error |-> NA, token |-> NoToken, reqStaff |-> NoStaff,
   ran |-> FALSE, found |-> NoRow, verified |-> "skipped", nexts |-> 0]

\* the request was answered by the middleware chain: the controller did not run
Stopped(req, gate) ==
  [req EXCEPT !.status = gate.status, !.error = gate.error, !.reqStaff = gate.reqStaff]

\* the request was answered by the controller
Answered(req, gate, status, error) ==
  [req EXCEPT !.status = status, !.error = error, !.reqStaff = gate.reqStaff,
              !.ran = TRUE]

\* the token sets the clients may hold once `token` is issued: they keep at
\* most MaxHeld tokens and drop an older one for a new one
Hold(held, token) ==
  IF token \in held \/ Cardinality(held) < MaxHeld
  THEN {held \cup {token}}
  ELSE {(held \ {d}) \cup {token} : d \in held}

BearerInputs == {NoBearer, ForgedToken} \cup tokens

\* a request that changes the store, or the tokens held, uses up one unit of
\* the budget; one that only reads, or is rejected, uses none
Spend ==
  /\ budget' = IF <<staff', assignments', nextId', tokens'>>
                    = <<staff, assignments, nextId, tokens>>
                THEN budget ELSE budget - 1
  /\ budget' >= 0

-----------------------------------------------------------------------------
(* middleware/activity-logger.middleware.ts and the process *)

\* req.params.id, on the routes that have an :id segment
ResourceId(req) ==
  IF req.route \in {"read", "update", "delete", "role.assign", "role.remove"}
  THEN req.target ELSE NULL

\* the row the callback inserts: req.staff?.id || null, the action, the outcome
\* class of res.statusCode, body?.error
EntryAlwaysSuccess(action, req) ==
  [staffId |-> req.reqStaff.id, action |-> action, resourceId |-> ResourceId(req),
   status |-> "success",
   errorMessage |-> req.error]

Entry(action, req) ==
  [staffId |-> req.reqStaff.id, action |-> action, resourceId |-> ResourceId(req),
   status |-> IF req.status < 400 THEN "success" ELSE "error",
   errorMessage |-> req.error]

\* logActivity(action) sits in the chain after authenticateStaff and
\* requirePermission: it wraps res.json and calls next(), so it schedules one
\* callback exactly when the controller runs and answers.  A request is served
\* by the running process, once the callback of the one before it has run.
logActivity(action) ==
  /\ up
  /\ pending = <<>>
  /\ pending' = IF last'.ran THEN Append(pending, Entry(action, last')) ELSE pending
  /\ UNCHANGED <<up, logRoom>>

\* staff_activity_logs.staff_id REFERENCES staff(id): the INSERT of a row naming
\* a staff member that no longer exists throws
InsertThrows(tbl, entry) == entry.staffId # NULL /\ entry.staffId \notin DOMAIN tbl

\* staff_activity_logs.staff_id ... ON DELETE SET NULL
deleteSetNull(rows, id) ==
  [k \in DOMAIN rows |->
     IF rows[k].staffId = id THEN [rows[k] EXCEPT !.staffId = NULL] ELSE rows[k]]

\* the setImmediate callback: try { await query(INSERT ...) } catch { logger.error }.
\* The INSERT succeeds or throws; what it throws is caught, and the callback is
\* then over either way.
AppendLogUncaught ==
  /\ up
  /\ pending # <<>>
  /\ \E ok \in (IF dbUp /\ logRoom > 0 /\ ~InsertThrows(staff, Head(pending))
                THEN BOOLEAN ELSE {FALSE}) :
       /\ log' = IF ok THEN Append(log, Head(pending)) ELSE log
       /\ logRoom' = IF ok THEN logRoom - 1 ELSE logRoom
       /\ up' = ok
  /\ pending' = Tail(pending)
  /\ UNCHANGED <<loggingIn, sdk, staff, assignments, nextId, tokens, now, budget, last, creating, dbUp>>

AppendLog ==
  /\ up
  /\ pending # <<>>
  /\ \E ok \in (IF dbUp /\ logRoom > 0 /\ ~InsertThrows(staff, Head(pending))
                THEN BOOLEAN ELSE {FALSE}) :
       /\ log' = IF ok THEN Append(log, Head(pending)) ELSE log
       /\ logRoom' = IF ok THEN logRoom - 1 ELSE logRoom
  /\ pending' = Tail(pending)
  /\ UNCHANGED <<loggingIn, sdk, staff, assignments, nextId, tokens, now, budget, last, up,
                 creating, dbUp>>

\* process.on('SIGTERM' / 'SIGINT'): process.exit(0); the callbacks still
\* scheduled never run
Shutdown ==
  /\ up
  /\ up' = FALSE
  /\ UNCHANGED <<loggingIn, sdk, staff, assignments, nextId, tokens, now, budget, last, pending,
                 log, logRoom, creating, dbUp>>

-----------------------------------------------------------------------------
(* controllers/staff.controller.ts and routes/staff.routes.ts *)

IsEmail(email) == email # "not-an-email"

\* loginSchema.parse(req.body)
loginSchema(email, password) == IsEmail(email) /\ Len(password) >= 1

\* staff.lockedUntil && new Date(staff.lockedUntil) > new Date()
IsLockedAlways(s, t) == s.lockedUntil # NULL

IsLockedNever(s, t) == FALSE

IsLocked(s, t) == s.lockedUntil # NULL /\ s.lockedUntil > t

\* staff.status !== 'active'
NotActiveNever(s) == FALSE

NotActive(s) == s.status # "active"

loginRevealsEmail(tbl, asg, email, password, t) ==
  LET out == [tbl |-> tbl, status |-> 200, error |-> NA, token |-> NoToken,
              found |-> NoRow, verified |-> "skipped"]
      s == findByEmailWithPassword(tbl, email)
  IN
  IF ~loginSchema(email, password)
  THEN [out EXCEPT !.status = 400, !.error = "Invalid input"]
  ELSE IF ~s.found
  THEN [out EXCEPT !.status = 404, !.error = "Staff member not found"]
  ELSE IF IsLocked(s, t)
  THEN [out EXCEPT !.status = 403, !.found = s,
          !.error = "Account is temporarily locked due to multiple failed login attempts"]
  ELSE IF NotActive(s)
  THEN [out EXCEPT !.status = 403, !.found = s, !.error = "Account is not active"]
  ELSE IF ~verifyPassword(password, s.passwordHash)
  THEN [out EXCEPT !.tbl = incrementFailedLogins(tbl, s.id, t),
                   !.status = 401, !.found = s, !.verified = "mismatch",
                   !.error = "Invalid email or password"]
  ELSE LET permissions == getPermissions(asg, s.id) IN
       [out EXCEPT !.tbl = updateLastLogin(tbl, s.id, t),
                   !.found = s, !.verified = "match",
                   !.token = generateToken(
                       [staffId |-> s.id, email |-> s.email,
                        isAdmin |-> s.isSuperAdmin \/ STAR \in permissions,
                        permissions |-> permissions], t)]

\* StaffController.login: the table after the request and the response
login(tbl, asg, email, password, t) ==
  LET out == [tbl |-> tbl, status |-> 200, error |-> NA, token |-> NoToken,
              found |-> NoRow, verified |-> "skipped"]
      s == findByEmailWithPassword(tbl, email)
  IN
  IF ~loginSchema(email, password)
  THEN [out EXCEPT !.status = 400, !.error = "Invalid input"]
  ELSE IF ~dbUp
  THEN [out EXCEPT !.status = 400, !.error = "Database query error"]
  ELSE IF ~s.found
  THEN [out EXCEPT !.status = 401, !.error = "Invalid email or password"]
  ELSE IF IsLocked(s, t)
  THEN [out EXCEPT !.status = 403, !.found = s,
          !.error = "Account is temporarily locked due to multiple failed login attempts"]
  ELSE IF NotActive(s)
  THEN [out EXCEPT !.status = 403, !.found = s, !.error = "Account is not active"]
  ELSE IF ~verifyPassword(password, s.passwordHash)
  THEN [out EXCEPT !.tbl = incrementFailedLogins(tbl, s.id, t),
                   !.status = 401, !.found = s, !.verified = "mismatch",
                   !.error = "Invalid email or password"]
  ELSE LET permissions == getPermissions(asg, s.id) IN
       [out EXCEPT !.tbl = updateLastLogin(tbl, s.id, t),
                   !.found = s, !.verified = "match",
                   !.token = generateToken(
                       [staffId |-> s.id, email |-> s.email,
                        isAdmin |-> s.isSuperAdmin \/ STAR \in permissions,
                        permissions |-> permissions], t)]

\* POST /login
PostLogin(email, password) ==
  /\ LET r == login(staff, assignments, email, password, now)
         req == [NoRequest EXCEPT !.route = "login", !.email = email,
                                  !.password = password, !.at = now]
     IN
     /\ r.verified = "mismatch" => r.found.failedLoginAttempts < MaxFailed
     /\ staff' = r.tbl
     /\ tokens' \in (IF r.token = NoToken THEN {tokens} ELSE Hold(tokens, r.token))
     /\ last' = [req EXCEPT !.status = r.status, !.error = r.error, !.ran = TRUE,
                            !.token = r.token, !.found = r.found,
                            !.verified = r.verified]
  /\ UNCHANGED <<loggingIn, sdk, assignments, nextId, now, log, creating, dbUp>>
  /\ Spend
  /\ logActivity("staff.login")

\* POST /login up to the point where StaffController.login has awaited
\* findByEmailWithPassword, found an active account that is not locked, and
\* awaits verifyPassword: the request is now in flight with the row it read
PostLoginFetch(email, password) ==
  /\ up
  /\ Len(loggingIn) < MaxInFlight
  /\ loginSchema(email, password)
  /\ dbUp
  /\ LET s == findByEmailWithPassword(staff, email) IN
     /\ s.found
     /\ ~IsLocked(s, now)
     /\ ~NotActive(s)
     /\ loggingIn' = Append(loggingIn, [email |-> email, password |-> password,
                                        found |-> s])
  /\ UNCHANGED <<sdk, staff, assignments, nextId, tokens, now, budget, last, pending,
                 log, up, logRoom, creating, dbUp>>

incrementFailedLoginsFromRow(tbl, s, t) ==
  IF s.id \notin DOMAIN tbl THEN tbl
  ELSE [tbl EXCEPT ![s.id].failedLoginAttempts = s.failedLoginAttempts + 1,
                   ![s.id].lockedUntil =
                      IF s.failedLoginAttempts >= LOCK_THRESHOLD
                      THEN t + LOCK_MINUTES ELSE @]

\* await StaffModel.incrementFailedLogins(staff.id): of the row read before,
\* only the id goes into the UPDATE
incrementFailedLoginsOf(tbl, s, t) == incrementFailedLogins(tbl, s.id, t)

\* the rest of an in-flight POST /login: the password is verified against
\* the hash that was read; a mismatch runs incrementFailedLogins, a match
\* getPermissions and updateLastLogin, on the tables as they are now
PostLoginFinish(k) ==
  /\ k \in 1..Len(loggingIn)
  /\ loggingIn' = SubSeq(loggingIn, 1, k - 1) \o SubSeq(loggingIn, k + 1, Len(loggingIn))
  /\ LET c == loggingIn[k]
         req == [NoRequest EXCEPT !.route = "login", !.email = c.email,
                                  !.password = c.password, !.at = now,
                                  !.found = c.found, !.ran = TRUE]
         permissions == getPermissions(assignments, c.found.id)
         token == generateToken(
                    [staffId |-> c.found.id, email |-> c.found.email,
                     isAdmin |-> c.found.isSuperAdmin \/ STAR \in permissions,
                     permissions |-> permissions], now)
     IN
     IF ~dbUp
     THEN /\ last' = [req EXCEPT !.status = 400, !.error = "Database query error"]
          /\ UNCHANGED <<staff, tokens>>
     ELSE IF ~verifyPassword(c.password, c.found.passwordHash)
     THEN /\ c.found.id \in DOMAIN staff
               => staff[c.found.id].failedLoginAttempts < MaxFailed
          /\ staff' = incrementFailedLoginsOf(staff, c.found, now)
          /\ tokens' = tokens
          /\ last' = [req EXCEPT !.status = 401, !.verified = "mismatch",
                                 !.error = "Invalid email or password"]
     ELSE /\ staff' = updateLastLogin(staff, c.found.id, now)
          /\ tokens' \in Hold(tokens, token)
          /\ last' = [req EXCEPT !.status = 200, !.verified = "match",
                                 !.token = token]
  /\ UNCHANGED <<sdk, assignments, nextId, now, log, creating, dbUp>>
  /\ Spend
  /\ logActivity("staff.login")

\* GET /profile
GetProfile(bearer) ==
  /\ LET gate == Gate(bearer, <<>>, staff, now)
         req == [NoRequest EXCEPT !.route = "profile", !.bearer = bearer, !.at = now]
     IN
     last' = IF ~gate.next THEN Stopped(req, gate)
             ELSE IF ~findById(staff, gate.reqStaff.id).found
             THEN Answered(req, gate, 404, "Staff member not found")
             ELSE Answered(req, gate, 200, NA)
  /\ UNCHANGED <<loggingIn, sdk, staff, assignments, nextId, tokens, now, log, creating, dbUp>>
  /\ Spend
  /\ logActivity("staff.profile.read")

\* changePasswordSchema.parse(req.body)
changePasswordSchema(currentPassword, newPassword) ==
  Len(currentPassword) >= 1 /\ Len(newPassword) >= MIN_PASSWORD

changePasswordNoVerify(tbl, reqStaff, currentPassword, newPassword, t) ==
  LET out == [tbl |-> tbl, status |-> 200, error |-> NA, found |-> NoRow,
              verified |-> "skipped"]
      s == findByEmailWithPassword(tbl, reqStaff.email)
  IN
  IF ~changePasswordSchema(currentPassword, newPassword)
  THEN [out EXCEPT !.status = 400, !.error = "Invalid input"]
  ELSE IF ~s.found
  THEN [out EXCEPT !.status = 404, !.error = "Staff member not found"]
  ELSE IF ~validatePassword(newPassword).valid
  THEN [out EXCEPT !.status = 400, !.found = s,
                   !.error = "New password does not meet requirements"]
  ELSE [out EXCEPT !.tbl = updatePassword(tbl, reqStaff.id, newPassword, t),
                   !.found = s]

changePasswordNoPolicy(tbl, reqStaff, currentPassword, newPassword, t) ==
  LET out == [tbl |-> tbl, status |-> 200, error |-> NA, found |-> NoRow,
              verified |-> "skipped"]
      s == findByEmailWithPassword(tbl, reqStaff.email)
  IN
  IF ~changePasswordSchema(currentPassword, newPassword)
  THEN [out EXCEPT !.status = 400, !.error = "Invalid input"]
  ELSE IF ~s.found
  THEN [out EXCEPT !.status = 404, !.error = "Staff member not found"]
  ELSE IF ~verifyPassword(currentPassword, s.passwordHash)
  THEN [out EXCEPT !.status = 401, !.found = s, !.verified = "mismatch",
                   !.error = "Current password is incorrect"]
  ELSE [out EXCEPT !.tbl = updatePassword(tbl, reqStaff.id, newPassword, t),
                   !.found = s, !.verified = "match"]

\* StaffController.changePassword
changePassword(tbl, reqStaff, currentPassword, newPassword, t) ==
  LET out == [tbl |-> tbl, status |-> 200, error |-> NA, found |-> NoRow,
              verified |-> "skipped"]
      s == findByEmailWithPassword(tbl, reqStaff.email)
  IN
  IF ~changePasswordSchema(currentPassword, newPassword)
  THEN [out EXCEPT !.status = 400, !.error = "Invalid input"]
  ELSE IF ~s.found
  THEN [out EXCEPT !.status = 404, !.error = "Staff member not found"]
  ELSE IF ~verifyPassword(currentPassword, s.passwordHash)
  THEN [out EXCEPT !.status = 401, !.found = s, !.verified = "mismatch",
                   !.error = "Current password is incorrect"]
  ELSE IF ~validatePassword(newPassword).valid
  THEN [out EXCEPT !.status = 400, !.found = s, !.verified = "match",
                   !.error = "New password does not meet requirements"]
  ELSE [out EXCEPT !.tbl = updatePassword(tbl, reqStaff.id, newPassword, t),
                   !.found = s, !.verified = "match"]

\* PUT /profile/password
PutProfilePassword(bearer, currentPassword, newPassword) ==
  /\ LET gate == Gate(bearer, <<>>, staff, now)
         req == [NoRequest EXCEPT !.route = "password", !.bearer = bearer,
                                  !.password = currentPassword,
                                  !.newPassword = newPassword, !.at = now]
         r == changePassword(staff, gate.reqStaff, currentPassword, newPassword, now)
     IN
     IF ~gate.next
     THEN last' = Stopped(req, gate) /\ staff' = staff
     ELSE /\ staff' = r.tbl
          /\ last' = [Answered(req, gate, r.status, r.error)
                        EXCEPT !.found = r.found, !.verified = r.verified]
  /\ UNCHANGED <<loggingIn, sdk, assignments, nextId, tokens, now, log, creating, dbUp>>
  /\ Spend
  /\ logActivity("staff.profile.password")

\* GET /
ListStaff(bearer) ==
  /\ LET gate == Gate(bearer, Scope("staff", "read"), staff, now)
         req == [NoRequest EXCEPT !.route = "list", !.bearer = bearer, !.at = now]
     IN
     last' = IF ~gate.next THEN Stopped(req, gate) ELSE Answered(req, gate, 200, NA)
  /\ UNCHANGED <<loggingIn, sdk, staff, assignments, nextId, tokens, now, log, creating, dbUp>>
  /\ Spend
  /\ logActivity("staff.list")

\* GET /:id
GetStaff(bearer, id) ==
  /\ LET gate == Gate(bearer, Scope("staff", "read"), staff, now)
         req == [NoRequest EXCEPT !.route = "read", !.bearer = bearer,
                                  !.target = id, !.at = now]
     IN
     last' = IF ~gate.next THEN Stopped(req, gate)
             ELSE IF ~findById(staff, id).found
             THEN Answered(req, gate, 404, "Staff member not found")
             ELSE Answered(req, gate, 200, NA)
  /\ UNCHANGED <<loggingIn, sdk, staff, assignments, nextId, tokens, now, log, creating, dbUp>>
  /\ Spend
  /\ logActivity("staff.read")

\* createStaffSchema.parse(req.body)
createStaffSchema(email, password) == IsEmail(email) /\ Len(password) >= MIN_PASSWORD

\* POST /
PostStaff(bearer, email, password) ==
  /\ LET gate == Gate(bearer, Scope("staff", "create"), staff, now)
         req == [NoRequest EXCEPT !.route = "create", !.bearer = bearer,
                                  !.email = email, !.newPassword = password, !.at = now]
     IN
     IF ~gate.next
     THEN last' = Stopped(req, gate) /\ UNCHANGED <<staff, nextId>>
     ELSE IF ~createStaffSchema(email, password)
     THEN last' = Answered(req, gate, 400, "Invalid input") /\ UNCHANGED <<staff, nextId>>
     ELSE IF ~validatePassword(password).valid
     THEN /\ last' = Answered(req, gate, 400, "Password does not meet requirements")
          /\ UNCHANGED <<staff, nextId>>
     ELSE IF findByEmail(staff, email).found
     THEN last' = Answered(req, gate, 409, "Email already in use")
          /\ UNCHANGED <<staff, nextId>>
     ELSE /\ nextId <= MaxStaff
          /\ staff' = create(staff, nextId,
                             [email |-> email, password |-> password,
                              createdBy |-> gate.reqStaff.id])
          /\ nextId' = nextId + 1
          /\ last' = [Answered(req, gate, 201, NA) EXCEPT !.target = nextId]
  /\ UNCHANGED <<loggingIn, sdk, assignments, tokens, now, log, creating, dbUp>>
  /\ Spend
  /\ logActivity("staff.create")

\* POST / up to the point where StaffController.create has awaited findByEmail
\* and found no account with the email: the request is now in flight
PostStaffCheck(bearer, email, password) ==
  /\ up
  /\ Cardinality(creating) < MaxInFlight
  /\ LET gate == Gate(bearer, Scope("staff", "create"), staff, now) IN
     /\ gate.next
     /\ createStaffSchema(email, password)
     /\ validatePassword(password).valid
     /\ ~findByEmail(staff, email).found
     /\ creating' = creating \cup {[bearer |-> bearer, reqStaff |-> gate.reqStaff,
                                    email |-> email, password |-> password]}
  /\ UNCHANGED <<loggingIn, sdk, staff, assignments, nextId, tokens, now, budget, last, pending, log,
                 up, logRoom, dbUp>>

\* the rest of an in-flight POST /: StaffModel.create and the response.  The
\* INSERT throws when the database is down, when email UNIQUE is violated and
\* when created_by names no row; StaffController.create answers what was thrown
\* with 400 and its message
PostStaffInsert(c) ==
  /\ c \in creating
  /\ creating' = creating \ {c}
  /\ LET req == [NoRequest EXCEPT !.route = "create", !.bearer = c.bearer,
                                  !.email = c.email, !.newPassword = c.password,
                                  !.at = now]
         gate == [next |-> TRUE, status |-> 200, error |-> NA, reqStaff |-> c.reqStaff]
     IN
     IF ~dbUp
     THEN last' = Answered(req, gate, 400, "Database query error")
          /\ UNCHANGED <<staff, nextId>>
     ELSE IF findByEmail(staff, c.email).found
     THEN last' = Answered(req, gate, 400, "duplicate key value violates unique constraint")
          /\ UNCHANGED <<staff, nextId>>
     ELSE IF c.reqStaff.id \notin DOMAIN staff
     THEN last' = Answered(req, gate, 400, "violates foreign key constraint")
          /\ UNCHANGED <<staff, nextId>>
     ELSE /\ nextId <= MaxStaff
          /\ staff' = create(staff, nextId,
                             [email |-> c.email, password |-> c.password,
                              createdBy |-> c.reqStaff.id])
          /\ nextId' = nextId + 1
          /\ last' = [Answered(req, gate, 201, NA) EXCEPT !.target = nextId]
  /\ UNCHANGED <<loggingIn, sdk, assignments, tokens, now, log, dbUp>>
  /\ Spend
  /\ logActivity("staff.create")

\* PUT /:id
PutStaff(bearer, id, status) ==
  /\ LET gate == Gate(bearer, Scope("staff", "update"), staff, now)
         req == [NoRequest EXCEPT !.route = "update", !.bearer = bearer,
                                  !.target = id, !.data = status, !.at = now]
     IN
     IF ~gate.next
     THEN last' = Stopped(req, gate) /\ staff' = staff
     ELSE /\ staff' = update(staff, id,
                             [status |-> status, updatedBy |-> gate.reqStaff.id])
          /\ last' = IF id \in DOMAIN staff
                     THEN Answered(req, gate, 200, NA)
                     ELSE Answered(req, gate, 404, "Staff member not found")
  /\ UNCHANGED <<loggingIn, sdk, assignments, nextId, tokens, now, log, creating, dbUp>>
  /\ Spend
  /\ logActivity("staff.update")

\* id === req.staff!.id
SelfDeletionNever(id, reqStaff) == FALSE

SelfDeletion(id, reqStaff) == id = reqStaff.id

\* DELETE /:id
DeleteStaff(bearer, id) ==
  /\ LET gate == Gate(bearer, Scope("staff", "delete"), staff, now)
         req == [NoRequest EXCEPT !.route = "delete", !.bearer = bearer,
                                  !.target = id, !.at = now]
     IN
     IF ~gate.next
     THEN last' = Stopped(req, gate) /\ UNCHANGED <<staff, assignments, log>>
     ELSE IF SelfDeletion(id, gate.reqStaff)
     THEN /\ last' = Answered(req, gate, 400, "Cannot delete your own account")
          /\ UNCHANGED <<staff, assignments, log>>
     ELSE IF ~findById(staff, id).found
     THEN /\ last' = Answered(req, gate, 404, "Staff member not found")
          /\ UNCHANGED <<staff, assignments, log>>
     ELSE IF Referenced(staff, assignments, id)
     THEN /\ last' = Answered(req, gate, 500, "Failed to delete staff member")
          /\ UNCHANGED <<staff, assignments, log>>
     ELSE /\ staff' = delete(staff, id)
          /\ assignments' = deleteCascade(assignments, id)
          /\ log' = deleteSetNull(log, id)
          /\ last' = Answered(req, gate, 200, NA)
  /\ UNCHANGED <<loggingIn, sdk, nextId, tokens, now, creating, dbUp>>
  /\ Spend
  /\ logActivity("staff.delete")

\* POST /:id/roles; roleId is NA when the body has none
PostRole(bearer, id, roleId) ==
  /\ LET gate == Gate(bearer, Scope("staff", "update"), staff, now)
         req == [NoRequest EXCEPT !.route = "role.assign", !.bearer = bearer,
                                  !.target = id, !.roleId = roleId, !.at = now]
     IN
     IF ~gate.next
     THEN last' = Stopped(req, gate) /\ assignments' = assignments
     ELSE IF roleId = NA
     THEN /\ last' = Answered(req, gate, 400, "Role ID is required")
          /\ assignments' = assignments
     ELSE IF ~findById(staff, id).found
     THEN /\ last' = Answered(req, gate, 404, "Staff member not found")
          /\ assignments' = assignments
     ELSE IF assignRoleThrows(roleId)
     THEN /\ last' = Answered(req, gate, 500, "Failed to assign role")
          /\ assignments' = assignments
     ELSE /\ assignments' = assignRole(assignments, id, roleId, gate.reqStaff.id)
          /\ last' = Answered(req, gate, 200, NA)
  /\ UNCHANGED <<loggingIn, sdk, staff, nextId, tokens, now, log, creating, dbUp>>
  /\ Spend
  /\ logActivity("staff.role.assign")

\* DELETE /:id/roles/:roleId
DeleteRole(bearer, id, roleId) ==
  /\ LET gate == Gate(bearer, Scope("staff", "update"), staff, now)
         req == [NoRequest EXCEPT !.route = "role.remove", !.bearer = bearer,
                                  !.target = id, !.roleId = roleId, !.at = now]
     IN
     IF ~gate.next
     THEN last' = Stopped(req, gate) /\ assignments' = assignments
     ELSE IF ~findById(staff, id).found
     THEN /\ last' = Answered(req, gate, 404, "Staff member not found")
          /\ assignments' = assignments
     ELSE /\ assignments' = removeRole(assignments, id, roleId)
          /\ last' = Answered(req, gate, 200, NA)
  /\ UNCHANGED <<loggingIn, sdk, staff, nextId, tokens, now, log, creating, dbUp>>
  /\ Spend
  /\ logActivity("staff.role.remove")

\* a request to a route behind optionalAuth: the middleware alone, no route of
\* staff.routes mounts it in front of a controller
OptionalRoute(bearer) ==
  /\ up
  /\ pending = <<>>
  /\ LET o == optionalAuth(bearer, staff, now)
         req == [NoRequest EXCEPT !.route = "optional", !.bearer = bearer, !.at = now]
     IN last' = [req EXCEPT !.reqStaff = o.reqStaff, !.nexts = o.nexts]
  /\ UNCHANGED <<loggingIn, sdk, staff, assignments, nextId, tokens, now, budget, pending, log, up,
                 logRoom, creating, dbUp>>

\* the identities a request can carry when it reaches requireAdmin: the one
\* authenticateStaff attached for a token, or none
Identities ==
  {NoStaff} \cup {authenticateStaff(b, staff, now).reqStaff : b \in tokens}

\* a request with identity reqStaff reaches requireAdmin: the middleware alone,
\* no route of staff.routes mounts it in front of a controller
AdminRoute(reqStaff) ==
  /\ up
  /\ pending = <<>>
  /\ LET g == requireAdmin(reqStaff)
         req == [NoRequest EXCEPT !.route = "admin", !.at = now]
     IN last' = [req EXCEPT !.reqStaff = reqStaff, !.status = g.status,
                            !.error = g.error,
                            !.nexts = IF g.next THEN 1 ELSE 0]
  /\ UNCHANGED <<loggingIn, sdk, staff, assignments, nextId, tokens, now, budget, pending, log, up,
                 logRoom, creating, dbUp>>

\* the pool loses the database: every query(...) throws from here on
StoreFails ==
  /\ up
  /\ dbUp
  /\ dbUp' = FALSE
  /\ UNCHANGED <<loggingIn, sdk, staff, assignments, nextId, tokens, now, budget, last, pending,
                 log, up, logRoom, creating>>

\* the database is back
StoreRecovers ==
  /\ up
  /\ ~dbUp
  /\ dbUp' = TRUE
  /\ UNCHANGED <<loggingIn, sdk, staff, assignments, nextId, tokens, now, budget, last, pending,
                 log, up, logRoom, creating>>

\* time passes
Tick(d) ==
  /\ now + d <= MaxTime
  /\ now' = now + d
  /\ up
  /\ UNCHANGED <<loggingIn, sdk, staff, assignments, nextId, tokens, budget, last, pending, log,
                 up, logRoom, creating, dbUp>>

-----------------------------------------------------------------------------

\* the database after infra/docker/init-db.sql: the seeded roles, the default
\* super admin and its role assignment
Seeded ==
  /\ staff = (ADMIN_ID :> [NewRow(ADMIN_EMAIL, ADMIN_PASSWORD, NULL)
                             EXCEPT !.isSuperAdmin = TRUE])
  /\ assignments = {[staffId |-> ADMIN_ID, roleId |-> "Super Admin", assignedBy |-> NULL]}
  /\ nextId = ADMIN_ID + 1
  /\ tokens = {}
  /\ now = 0
  /\ last = NoRequest
  /\ pending = <<>>
  /\ log = <<>>
  /\ up = TRUE
  /\ creating = {}
  /\ dbUp = TRUE
  /\ loggingIn = <<>>
  /\ client = NoClient
  /\ mcp = NewManager
  /\ flow = NewFlow

(* The whole API *)

Init == Seeded /\ budget = MaxWrites /\ logRoom = 0

Next ==
  \/ \E e \in KnownEmails, p \in GoodPasswords : PostLogin(e, p)
  \/ \E b \in BearerInputs : GetProfile(b)
  \/ \E b \in tokens, c \in GoodPasswords, p \in {OTHER_PASSWORD, WEAK_PASSWORD} :
       PutProfilePassword(b, c, p)
  \/ \E b \in BearerInputs : ListStaff(b)
  \/ \E b \in tokens, i \in StaffIds : GetStaff(b, i)
  \/ \E b \in tokens, e \in KnownEmails, p \in {OTHER_PASSWORD, WEAK_PASSWORD} :
       PostStaff(b, e, p)
  \/ \E b \in tokens, i \in StaffIds, st \in StatusInputs : PutStaff(b, i, st)
  \/ \E b \in tokens, i \in StaffIds : DeleteStaff(b, i)
  \/ \E b \in tokens, i \in StaffIds, r \in {"Manager", "no-such-role", NA} :
       PostRole(b, i, r)
  \/ \E b \in tokens, i \in StaffIds, r \in {"Manager", "no-such-role"} :
       DeleteRole(b, i, r)
  \/ \E d \in TickSteps : Tick(d)
  \/ AppendLog

Spec == Init /\ [][Next]_vars

(* The lockout state machine of one account: logins, the clock, and status *)
(* edits of the account by a token holder                                  *)

InitLockout == Seeded /\ budget = MaxLockoutWrites /\ logRoom = 0

NextLockout ==
  \/ \E e \in EmailInputs, p \in LoginPasswords : PostLogin(e, p)
  \/ \E b \in tokens, st \in StatusValues : PutStaff(b, ADMIN_ID, st)
  \/ \E d \in TickSteps : Tick(d)
  \/ AppendLog

SpecLockout == InitLockout /\ [][NextLockout]_vars

(* The access-control interceptor: every route behind authenticateStaff, *)
(* asked with every kind of bearer                                        *)

InitAccess == Seeded /\ budget = MaxAccessWrites /\ logRoom = 0

NextAccess ==
  \/ PostLogin(ADMIN_EMAIL, ADMIN_PASSWORD)
  \/ PostLogin("b@x.com", OTHER_PASSWORD)
  \/ \E b \in BearerInputs : GetProfile(b)
  \/ \E b \in BearerInputs : PutProfilePassword(b, OTHER_PASSWORD, ADMIN_PASSWORD)
  \/ \E b \in BearerInputs : ListStaff(b)
  \/ \E b \in BearerInputs, i \in StaffIds : GetStaff(b, i)
  \/ \E b \in BearerInputs : PostStaff(b, "b@x.com", OTHER_PASSWORD)
  \/ \E b \in BearerInputs, i \in StaffIds, st \in {"inactive", "suspended"} :
       PutStaff(b, i, st)
  \/ \E b \in BearerInputs, i \in StaffIds : DeleteStaff(b, i)
  \/ \E b \in BearerInputs : PostRole(b, nextId - 1, "Manager")
  \/ \E b \in BearerInputs : DeleteRole(b, nextId - 1, "Manager")
  \/ \E d \in TickSteps : Tick(d)
  \/ AppendLog

SpecAccess == InitAccess /\ [][NextAccess]_vars

(* Roles and scopes: an administrator creates one account and edits its *)
(* roles; both log in and call the scope-gated routes                    *)

InitRoles == Seeded /\ budget = MaxRoleWrites /\ logRoom = 0

NextRoles ==
  \/ PostLogin(ADMIN_EMAIL, ADMIN_PASSWORD)
  \/ PostLogin("b@x.com", OTHER_PASSWORD)
  \/ \E b \in tokens : PostStaff(b, "b@x.com", OTHER_PASSWORD)
  \/ \E b \in tokens, r \in DOMAIN Roles : PostRole(b, ADMIN_ID + 1, r)
  \/ \E b \in tokens, r \in {"Manager", "Admin"} : DeleteRole(b, ADMIN_ID + 1, r)
  \/ \E b \in tokens : ListStaff(b)
  \/ \E b \in tokens : PutStaff(b, ADMIN_ID + 1, NA)
  \/ \E b \in tokens : DeleteStaff(b, ADMIN_ID + 1)
  \/ \E i \in Identities : AdminRoute(i)
  \/ AppendLog

SpecRoles == InitRoles /\ [][NextRoles]_vars

(* Emails: logins and create requests with emails that differ in letter  *)
(* case, and create requests that run concurrently                        *)

CreateEmails == {"Admin@akaind.ca", "b@x.com"}

InitEmail == Seeded /\ budget = MaxEmailWrites /\ logRoom = 0

NextEmail ==
  \/ PostLogin(ADMIN_EMAIL, ADMIN_PASSWORD)
  \/ \E e \in CreateEmails, p \in GoodPasswords : PostLogin(e, p)
  \/ \E b \in tokens, e \in CreateEmails : PostStaff(b, e, OTHER_PASSWORD)
  \/ \E b \in tokens, e \in CreateEmails, p \in GoodPasswords : PostStaffCheck(b, e, p)
  \/ \E c \in creating : PostStaffInsert(c)
  \/ AppendLog

SpecEmail == InitEmail /\ [][NextEmail]_vars

(* The audit pipeline: requests that are logged, the callbacks that write *)
(* the rows, and the end of the process                                   *)

InitAudit == Seeded /\ budget = MaxAuditWrites /\ logRoom = MaxLogged

NextAudit ==
  \/ \E p \in GoodPasswords : PostLogin(ADMIN_EMAIL, p)
  \/ PostLogin("b@x.com", OTHER_PASSWORD)
  \/ \E b \in tokens : GetProfile(b)
  \/ \E b \in BearerInputs : PostStaff(b, "b@x.com", OTHER_PASSWORD)
  \/ \E b \in tokens : PostRole(b, ADMIN_ID + 1, "Manager")
  \/ \E b \in BearerInputs : DeleteStaff(b, ADMIN_ID + 1)
  \/ AppendLog
  \/ Shutdown

SpecAudit == InitAudit /\ [][NextAudit]_vars

(* Store outages: the authentication interceptors while the database is   *)
(* down, with tokens of active, suspended and deleted accounts            *)

InitOutage == Seeded /\ budget = MaxOutageWrites /\ logRoom = 0

NextOutage ==
  \/ PostLogin(ADMIN_EMAIL, ADMIN_PASSWORD)
  \/ PostLogin("b@x.com", OTHER_PASSWORD)
  \/ \E b \in tokens : PostStaff(b, "b@x.com", OTHER_PASSWORD)
  \/ \E b \in tokens : PutStaff(b, ADMIN_ID + 1, "suspended")
  \/ \E b \in tokens : DeleteStaff(b, ADMIN_ID + 1)
  \/ \E b \in BearerInputs : GetProfile(b)
  \/ \E b \in BearerInputs : OptionalRoute(b)
  \/ \E d \in TickSteps : Tick(d)
  \/ StoreFails
  \/ StoreRecovers
  \/ AppendLog

SpecOutage == InitOutage /\ [][NextOutage]_vars

(* packages/sdk-core: AKAClient *)

\* config.retries of the configurations a client is constructed with; NULL is
\* a configuration without the key
RetryInputs == {NULL} \cup 0..MaxRetries

\* how a fetch and the reading of its body can end: a response with ok, a
\* response without ok, a rejected fetch, the abort of the timeout, a body
\* that is no JSON
FetchOutcomes == {"ok", "API error", "network", "abort", "json"}

\* { ..., retries: config.retries || 3, ...config }: the spread puts a key the
\* configuration has over the default
configRetries(retries) ==
  LET defaulted == IF retries = NULL \/ retries = 0 THEN DEFAULT_RETRIES ELSE retries
  IN IF retries = NULL THEN defaulted ELSE retries

\* new AKAClient({apiKey, retries})
NewClient(retries) ==
  /\ client.pc = "none"
  /\ client' = [NoClient EXCEPT !.given = retries,
                                !.retries = configRetries(retries), !.pc = "idle"]
  /\ UNCHANGED <<backend, mcp, flow>>

\* Math.pow(2, attempt) * 1000 ms, in seconds
RECURSIVE backoff(_)

backoffFlat(attempt) == 1

backoff(attempt) == IF attempt = 0 THEN 1 ELSE 2 * backoff(attempt - 1)

\* request(method, endpoint, data): lastError = null, attempt = 0, and the loop condition
\* attempt <= retries; the first fetch is called, or the loop is never entered
\* and lastError || new Error('Request failed') is thrown
Request(method) ==
  /\ client.pc \in {"idle", "returned", "thrown"}
  /\ client' = IF 0 <= client.retries
                THEN [client EXCEPT !.pc = "fetching", !.method = method,
                                    !.attempt = 0, !.fetches = 1,
                                    !.slept = <<>>, !.lastError = NA, !.thrown = NA]
                ELSE [client EXCEPT !.pc = "thrown", !.method = method,
                                    !.attempt = 0, !.fetches = 0,
                                    !.slept = <<>>, !.lastError = NA,
                                    !.thrown = "Request failed"]
  /\ UNCHANGED <<backend, mcp, flow>>

\* the fetch of this attempt, or the reading of its body, ends: return on
\* success; otherwise catch, lastError = error, sleep before the next attempt if
\* there is one, else leave the loop and throw lastError
FetchSettles(outcome) ==
  /\ client.pc = "fetching"
  /\ client' = IF outcome = "ok"
                THEN [client EXCEPT !.pc = "returned"]
                ELSE IF client.attempt < client.retries
                THEN [client EXCEPT !.pc = "sleeping", !.lastError = outcome,
                                    !.slept = Append(@, backoff(client.attempt))]
                ELSE [client EXCEPT !.pc = "thrown", !.lastError = outcome,
                                    !.attempt = @ + 1, !.thrown = outcome]
  /\ UNCHANGED <<backend, mcp, flow>>

\* the sleep is over: attempt++, the loop condition holds, the next fetch
SleepEnds ==
  /\ client.pc = "sleeping"
  /\ client' = [client EXCEPT !.pc = "fetching", !.attempt = @ + 1, !.fetches = @ + 1]
  /\ UNCHANGED <<backend, mcp, flow>>

InitClient == Seeded /\ budget = 0 /\ logRoom = 0

NextClient ==
  \/ \E r \in RetryInputs : NewClient(r)
  \/ \E m \in {"GET", "POST"} : Request(m)
  \/ \E o \in FetchOutcomes : FetchSettles(o)
  \/ SleepEnds

SpecClient == InitClient /\ [][NextClient]_vars

\* a fetch settles (its timeout aborts it) and a sleep ends
SpecClientFair ==
  /\ SpecClient
  /\ WF_vars(\E o \in FetchOutcomes : FetchSettles(o))
  /\ WF_vars(SleepEnds)

(* packages/sdk-core: MCPSessionManager.  mcp.sockets are the WebSockets the *)
(* manager has constructed, each with the handlers connect() gave it;       *)
(* mcp.ws is the index of the one this.ws refers to, 0 for null;            *)
(* mcp.intervals counts the setInterval timers that run, mcp.timers the     *)
(* setTimeout callbacks of attemptReconnect that have not fired             *)

\* clearInterval(this.heartbeatInterval) if it is set
stopHeartbeat(m) ==
  IF m.heartbeatInterval
  THEN [m EXCEPT !.heartbeatInterval = FALSE, !.intervals = @ - 1]
  ELSE m

\* this.heartbeatInterval = setInterval(...)
startHeartbeat(m) == [m EXCEPT !.heartbeatInterval = TRUE, !.intervals = @ + 1]

attemptReconnectUnbounded(m) ==
  [m EXCEPT !.reconnectAttempts = @ + 1, !.timers = @ + 1]

\* return at MAX_RECONNECT_ATTEMPTS; else reconnectAttempts++ and setTimeout
attemptReconnect(m) ==
  IF m.reconnectAttempts >= MAX_RECONNECT_ATTEMPTS
  THEN m
  ELSE [m EXCEPT !.reconnectAttempts = @ + 1, !.timers = @ + 1]

\* this.ws = new WebSocket(wsUrl), with onopen, onmessage, onerror, onclose
connect(m) ==
  [m EXCEPT !.sockets = Append(@, "connecting"), !.ws = Len(m.sockets) + 1]

\* stopHeartbeat(); if (this.ws) { this.ws.close(); this.ws = null }.  close()
\* starts the closing handshake of an open socket and aborts a connecting one.
disconnect(m) ==
  LET h == stopHeartbeat(m) IN
  IF h.ws = 0 THEN h
  ELSE [h EXCEPT !.sockets[h.ws] = CASE @ = "open" -> "closing"
                                     [] @ = "connecting" -> "aborting"
                                     [] OTHER -> @,
                 !.ws = 0]

\* ws.onclose: stopHeartbeat(); attemptReconnect(sessionId, userId)
onclose(m) == attemptReconnect(stopHeartbeat(m))

\* createSession with an ok response: this.session = session; connect(...).
\* The caller creates or joins a session only while the manager has none.
CreateSession ==
  /\ mcp.session = "none"
  /\ Len(mcp.sockets) < MaxSockets
  /\ mcp' = connect([mcp EXCEPT !.session = "created"])
  /\ UNCHANGED <<backend, client, flow>>

\* joinSession with an ok response: this.session = ...; connect(...)
JoinSession ==
  /\ mcp.session = "none"
  /\ Len(mcp.sockets) < MaxSockets
  /\ mcp' = connect([mcp EXCEPT !.session = "joined"])
  /\ UNCHANGED <<backend, client, flow>>

\* leaveSession: return without session or socket; else send leave,
\* disconnect(), this.session = null
LeaveSession ==
  /\ mcp' = IF mcp.session = "none" \/ mcp.ws = 0
             THEN mcp
             ELSE [disconnect(mcp) EXCEPT !.session = "none"]
  /\ UNCHANGED <<backend, client, flow>>

\* socket k opens; onopen: reconnectAttempts = 0; startHeartbeat()
SocketOpens(k) ==
  /\ k \in 1..Len(mcp.sockets)
  /\ mcp.sockets[k] = "connecting"
  /\ mcp' = startHeartbeat([mcp EXCEPT !.sockets[k] = "open",
                                        !.reconnectAttempts = 0])
  /\ UNCHANGED <<backend, client, flow>>

\* socket k fails to connect: onerror rejects the promise of connect, and the
\* close event follows
SocketFails(k) ==
  /\ k \in 1..Len(mcp.sockets)
  /\ mcp.sockets[k] \in {"connecting", "aborting"}
  /\ mcp' = onclose([mcp EXCEPT !.sockets[k] = "closed"])
  /\ UNCHANGED <<backend, client, flow>>

\* the close event of socket k, closed by the server, the network or ws.close()
SocketCloses(k) ==
  /\ k \in 1..Len(mcp.sockets)
  /\ mcp.sockets[k] \in {"open", "closing"}
  /\ mcp' = onclose([mcp EXCEPT !.sockets[k] = "closed"])
  /\ UNCHANGED <<backend, client, flow>>

\* the setTimeout callback of attemptReconnect: await this.connect(...)
ReconnectTimer ==
  /\ mcp.timers > 0
  /\ Len(mcp.sockets) < MaxSockets
  /\ mcp' = connect([mcp EXCEPT !.timers = @ - 1])
  /\ UNCHANGED <<backend, client, flow>>

InitMcp == Seeded /\ budget = 0 /\ logRoom = 0

NextMcp ==
  \/ CreateSession
  \/ JoinSession
  \/ LeaveSession
  \/ \E k \in 1..MaxSockets : SocketOpens(k)
  \/ \E k \in 1..MaxSockets : SocketFails(k)
  \/ \E k \in 1..MaxSockets : SocketCloses(k)
  \/ ReconnectTimer

SpecMcp == InitMcp /\ [][NextMcp]_vars

(* apps/partner-portal: PartnerOnboardingFlow.  flow.profile,              *)
(* flow.appSubmission and flow.revenueShare tell whether the field is set;  *)
(* an input gives the lengths and the presence of what the validators read; *)
(* each call is served with the answer its fetch gets                       *)

Steps == <<"profile", "verification", "app-submission", "revenue-share",
           "review", "complete">>

ProfileInputs ==
  [companyName : {1, 2}, contactEmail : BOOLEAN, description : {49, 50}]

AppInputs ==
  [name : {2, 3}, description : {99, 100}, screenshots : {1, 2},
   paid : BOOLEAN, price : BOOLEAN]

AgreementInputs ==
  [percentage : {0 - 1, 0, 100, 101}, minimumPayout : {0 - 1, 0}, country : BOOLEAN]

\* validateProfile returns without throwing
validateProfile(profile) ==
  /\ ~(profile.companyName < 2)
  /\ profile.contactEmail
  /\ ~(profile.description < 50)

\* validateAppSubmission returns without throwing
validateAppSubmission(app) ==
  /\ ~(app.name < 3)
  /\ ~(app.description < 100)
  /\ ~(app.screenshots < 2)
  /\ ~(app.paid /\ ~app.price)

\* validateRevenueShare returns without throwing
validateRevenueShare(agreement) ==
  /\ ~(agreement.percentage < 0 \/ agreement.percentage > 100)
  /\ ~(agreement.minimumPayout < 0)
  /\ agreement.country

allVerificationsComplete(f) ==
  /\ f.verification.emailVerified
  /\ f.verification.phoneVerified
  /\ f.verification.businessVerified

canComplete(f) ==
  /\ f.profile
  /\ allVerificationsComplete(f)
  /\ f.appSubmission
  /\ f.revenueShare

\* steps.indexOf(step), counted from 0
indexOf(step) == (CHOOSE i \in 1..Len(Steps) : Steps[i] = step) - 1

\* submitProfile: validate, POST the profile, then record it
SubmitProfile(profile, ok) ==
  /\ flow' = IF validateProfile(profile) /\ ok
              THEN [flow EXCEPT !.profile = TRUE, !.currentStep = "verification"]
              ELSE flow
  /\ UNCHANGED <<backend, client, mcp>>

\* verifyIdentity: POST, then set the flag and move on when all three are set
VerifyIdentity(verificationType, ok) ==
  /\ flow' = IF ~ok THEN flow
              ELSE LET v == [flow EXCEPT !.verification.defined = TRUE,
                                         !.verification[verificationType] = TRUE] IN
                   IF allVerificationsComplete(v)
                   THEN [v EXCEPT !.currentStep = "app-submission"]
                   ELSE v
  /\ UNCHANGED <<backend, client, mcp>>

\* submitApp: validate, upload, POST the app, then record it
SubmitApp(app, ok) ==
  /\ flow' = IF validateAppSubmission(app) /\ ok
              THEN [flow EXCEPT !.appSubmission = TRUE, !.currentStep = "revenue-share"]
              ELSE flow
  /\ UNCHANGED <<backend, client, mcp>>

\* configureRevenueShare: validate, POST the agreement, then record it
ConfigureRevenueShare(agreement, ok) ==
  /\ flow' = IF validateRevenueShare(agreement) /\ ok
              THEN [flow EXCEPT !.revenueShare = TRUE, !.currentStep = "review"]
              ELSE flow
  /\ UNCHANGED <<backend, client, mcp>>

\* complete: throw unless canComplete(); POST; completed = true
Complete(ok) ==
  /\ flow' = IF canComplete(flow) /\ ok
              THEN [flow EXCEPT !.completed = TRUE, !.currentStep = "complete"]
              ELSE flow
  /\ UNCHANGED <<backend, client, mcp>>

\* goToPreviousStep: the step before the current one, if there is one
GoToPreviousStep ==
  /\ flow' = IF indexOf(flow.currentStep) > 0
              THEN [flow EXCEPT !.currentStep = Steps[indexOf(flow.currentStep)]]
              ELSE flow
  /\ UNCHANGED <<backend, client, mcp>>

InitFlow == Seeded /\ budget = 0 /\ logRoom = 0

NextFlow ==
  \/ \E p \in ProfileInputs, ok \in BOOLEAN : SubmitProfile(p, ok)
  \/ \E t \in {"emailVerified", "phoneVerified", "businessVerified"}, ok \in BOOLEAN :
       VerifyIdentity(t, ok)
  \/ \E a \in AppInputs, ok \in BOOLEAN : SubmitApp(a, ok)
  \/ \E g \in AgreementInputs, ok \in BOOLEAN : ConfigureRevenueShare(g, ok)
  \/ \E ok \in BOOLEAN : Complete(ok)
  \/ GoToPreviousStep

SpecFlow == InitFlow /\ [][NextFlow]_vars

(* Concurrent logins: attempts on the administrator's account that read  *)
(* the row, verify the password and write, interleaved                    *)

InitRace == Seeded /\ budget = MaxRaceWrites /\ logRoom = 0

NextRace ==
  \/ \E p \in GoodPasswords : PostLoginFetch(ADMIN_EMAIL, p)
  \/ \E k \in 1..MaxInFlight : PostLoginFinish(k)
  \/ \E d \in TickSteps : Tick(d)
  \/ AppendLog

SpecRace == InitRace /\ [][NextRace]_vars

-----------------------------------------------------------------------------
(* Properties *)

\* the step answers a request: it is not the clock, not an audit callback (one
\* runs only while it is pending), not the end of the process, not a create
\* request going in flight, not the database going down or coming back
RequestStep ==
  /\ now' = now
  /\ pending = <<>>
  /\ up' = up
  /\ creating' \subseteq creating
  /\ dbUp' = dbUp
  /\ Len(loggingIn') <= Len(loggingIn)
  /\ UNCHANGED sdk

\* the step serves a login request
LoginStep == last'.route = "login" /\ RequestStep

\* the step serves a request to a route behind authenticateStaff
GatedStep == last'.route \notin {"login", "none"} /\ RequestStep

\* the lockout-expiry of a row lies in the future at time t
LockedAt(row, t) == row.lockedUntil # NULL /\ row.lockedUntil > t

\* the rows whose email is the one a login names
Named(tbl, email) == {i \in DOMAIN tbl : tbl[i].email = email}

\* a login with these credentials names an account that is not locked, is
\* active and has this password
Eligible(tbl, email, password, t) ==
  \E i \in Named(tbl, email) :
    /\ ~LockedAt(tbl[i], t)
    /\ tbl[i].status = "active"
    /\ verifyPassword(password, tbl[i].passwordHash)

\* C1: login answers with a token only if the account found by the email is
\* not locked, is active and the password verifies against its hash; in every
\* other case it issues no token and updates no last-login timestamp
C1_TokenOnlyIfEligible ==
  [][LoginStep =>
       LET ok == Eligible(staff, last'.email, last'.password, now) IN
       /\ last'.token # NoToken => ok
       /\ ~ok => /\ last'.token = NoToken
                 /\ tokens' = tokens
                 /\ last'.status >= 400
                 /\ \A i \in DOMAIN staff :
                      i \in DOMAIN staff' /\ staff'[i].lastLoginAt = staff[i].lastLoginAt]_vars

\* a login with the right password for an account that is not active was
\* answered without a token
W1_RightPasswordNotActive ==
  /\ last.route = "login"
  /\ last.found.found
  /\ last.found.status = "suspended"
  /\ verifyPassword(last.password, last.found.passwordHash)
  /\ last.token = NoToken
  /\ last.status = 403

\* a login with this password for row i is a failed password attempt: the
\* body is well formed, the account is active and not locked, and the
\* password does not verify
FailedAttempt(tbl, i, password, t) ==
  /\ Len(password) >= 1
  /\ tbl[i].status = "active"
  /\ ~LockedAt(tbl[i], t)
  /\ ~verifyPassword(password, tbl[i].passwordHash)

\* C2: a failed password attempt on an active, not locked account whose
\* counter is 4 takes the counter to 5 and sets the lockout-expiry to
\* now + 30 minutes: the account is locked right after it
C2_FifthFailureLocks ==
  [][LoginStep =>
       \A i \in Named(staff, last'.email) :
         (FailedAttempt(staff, i, last'.password, now)
            /\ staff[i].failedLoginAttempts = 4)
         => /\ staff'[i].failedLoginAttempts = 5
            /\ staff'[i].lockedUntil = now + 30
            /\ LockedAt(staff'[i], now)]_vars

W2_FifthFailureLocked ==
  /\ last.route = "login"
  /\ last.status = 401
  /\ last.found.found
  /\ last.found.failedLoginAttempts = 4
  /\ last.found.lockedUntil = NULL
  /\ staff[last.found.id].failedLoginAttempts = 5
  /\ staff[last.found.id].lockedUntil = last.at + 30

\* C3: while the lockout-expiry of an account is in the future, a login for
\* it changes neither its counter nor its expiry and gets no token; a well
\* formed one, with the right or a wrong password, is answered AccountLocked
\* (403) without the password being verified
C3_LockedLoginRejected ==
  [][LoginStep =>
       \A i \in Named(staff, last'.email) :
         LockedAt(staff[i], now)
         => /\ i \in DOMAIN staff'
            /\ staff'[i].failedLoginAttempts = staff[i].failedLoginAttempts
            /\ staff'[i].lockedUntil = staff[i].lockedUntil
            /\ last'.token = NoToken
            /\ Len(last'.password) >= 1 =>
                 /\ last'.status = 403
                 /\ last'.error =
                      "Account is temporarily locked due to multiple failed login attempts"
                 /\ last'.verified = "skipped"]_vars

\* the right password was refused because the account was locked
W3_RightPasswordWhileLocked ==
  /\ last.route = "login"
  /\ last.found.found
  /\ LockedAt(last.found, last.at)
  /\ verifyPassword(last.password, last.found.passwordHash)
  /\ last.status = 403
  /\ staff[last.found.id].failedLoginAttempts = last.found.failedLoginAttempts

\* C4: after a successful authentication the failed-attempt counter of the
\* account is 0 and its lockout-expiry is cleared
C4_SuccessResets ==
  (last.route = "login" /\ last.token # NoToken)
  => /\ last.token.staffId \in DOMAIN staff
     /\ staff[last.token.staffId].failedLoginAttempts = 0
     /\ staff[last.token.staffId].lockedUntil = NULL

\* a login succeeded for an account that had failed attempts on record
W4_SuccessAfterFailures ==
  /\ last.route = "login"
  /\ last.token # NoToken
  /\ last.found.failedLoginAttempts \in 1..4
  /\ staff[last.found.id].failedLoginAttempts = 0

\* C6: a lockout-expiry is only ever stored with a counter of 5 or more, and
\* the clock passing the expiry changes neither; once the expiry has passed, a
\* login with the right password for the active account succeeds and resets
\* the counter
C6_LazyExpiry ==
  /\ [](\A i \in DOMAIN staff :
          staff[i].lockedUntil # NULL => staff[i].failedLoginAttempts >= 5)
  /\ [][now' # now => staff' = staff]_vars
  /\ [][LoginStep =>
          \A i \in Named(staff, last'.email) :
            (/\ staff[i].lockedUntil # NULL
             /\ staff[i].lockedUntil <= now
             /\ staff[i].status = "active"
             /\ verifyPassword(last'.password, staff[i].passwordHash))
            => /\ staff[i].failedLoginAttempts >= 5
               /\ last'.status = 200
               /\ last'.token # NoToken
               /\ last'.token.staffId = i
               /\ staff'[i].failedLoginAttempts = 0]_vars

W6_SuccessAfterExpiry ==
  /\ last.route = "login"
  /\ last.token # NoToken
  /\ last.found.failedLoginAttempts >= 5
  /\ last.found.lockedUntil # NULL
  /\ last.found.lockedUntil <= last.at
  /\ staff[last.found.id].failedLoginAttempts = 0

\* C7: a failed password attempt on an account whose counter is in 0..3 adds
\* exactly one to the counter and leaves the lockout-expiry as it was: the
\* account is not locked by it
C7_EarlyFailureCounts ==
  [][LoginStep =>
       \A i \in Named(staff, last'.email) :
         (FailedAttempt(staff, i, last'.password, now)
            /\ staff[i].failedLoginAttempts \in 0..3)
         => /\ staff'[i].failedLoginAttempts = staff[i].failedLoginAttempts + 1
            /\ staff'[i].failedLoginAttempts \in 1..4
            /\ staff'[i].lockedUntil = staff[i].lockedUntil
            /\ ~LockedAt(staff'[i], now)]_vars

W7_FourthFailureNoLock ==
  /\ last.route = "login"
  /\ last.status = 401
  /\ last.found.found
  /\ last.found.failedLoginAttempts = 3
  /\ staff[last.found.id].failedLoginAttempts = 4
  /\ staff[last.found.id].lockedUntil = NULL

\* C5: over every operation of the API, the failed-attempt counter of an
\* account goes to 0 on a successful authentication of that account, and no
\* other step (another login, a password change, a staff update, a role
\* assignment or removal, the clock) lowers it
C5_CounterResetOnlyBySuccess ==
  [][\A i \in DOMAIN staff \cap DOMAIN staff' :
       LET authenticated ==
             LoginStep /\ last'.token # NoToken /\ last'.token.staffId = i
       IN /\ authenticated => staff'[i].failedLoginAttempts = 0
          /\ ~authenticated =>
               staff'[i].failedLoginAttempts >= staff[i].failedLoginAttempts]_vars

\* the status of an account with failed attempts on record was set to active
\* and the counter is still there
W5_ActivatedKeepsCounter ==
  /\ last.route = "update"
  /\ last.status = 200
  /\ last.data = "active"
  /\ last.target \in DOMAIN staff
  /\ staff[last.target].failedLoginAttempts > 0

\* the bearer of a request is a token login issued, presented before its expiry
Verifies(bearer, held, t) == bearer \in held /\ t < bearer.exp

\* C8: the controller of a route behind authenticateStaff runs only for a
\* request whose bearer token verifies and names an account that exists with
\* status active; the identity attached to the request is the token's payload
C8_HandlerOnlyBehindGate ==
  [][(GatedStep /\ last'.ran) =>
       LET b == last'.bearer IN
       /\ Verifies(b, tokens, now)
       /\ b.staffId \in DOMAIN staff
       /\ staff[b.staffId].status = "active"
       /\ last'.reqStaff = [id |-> b.staffId, email |-> b.email,
                            isAdmin |-> b.isAdmin, permissions |-> b.permissions]]_vars

\* a controller behind the interceptor ran and changed the store
W8_HandlerRan ==
  /\ last.route = "create"
  /\ last.ran
  /\ last.status = 201
  /\ last.reqStaff.id = last.bearer.staffId

\* C9: whenever the stored status of an account is inactive or suspended, a
\* request bearing a verifying token of that account is answered Forbidden
\* (403) and its controller does not run
C9_StatusReadLive ==
  [][GatedStep =>
       LET b == last'.bearer IN
       (/\ Verifies(b, tokens, now)
        /\ b.staffId \in DOMAIN staff
        /\ staff[b.staffId].status \in {"inactive", "suspended"})
       => /\ last'.status = 403
          /\ last'.error = "Staff account is not active"
          /\ ~last'.ran
          /\ staff' = staff /\ assignments' = assignments]_vars

\* a token that is still valid was refused because its account is suspended
W9_SuspendedTokenRefused ==
  /\ last.route \notin {"login", "none"}
  /\ last.bearer \in tokens
  /\ last.at < last.bearer.exp
  /\ last.bearer.staffId \in DOMAIN staff
  /\ staff[last.bearer.staffId].status = "suspended"
  /\ last.status = 403
  /\ ~last.ran

\* C10: the interceptor answers 401 when there is no bearer token, when the
\* token does not verify (bad signature or expired), and when the account of
\* the token does not exist; it answers 403 when the account exists with a
\* status other than active; in all four cases the controller does not run
C10_RejectionClasses ==
  [][GatedStep =>
       LET b == last'.bearer
           none == b = NoBearer
           invalid == ~none /\ ~Verifies(b, tokens, now)
           missing == ~none /\ ~invalid /\ b.staffId \notin DOMAIN staff
           notActive == /\ ~none /\ ~invalid /\ ~missing
                        /\ staff[b.staffId].status # "active"
       IN /\ none => last'.status = 401 /\ ~last'.ran
          /\ invalid => last'.status = 401 /\ ~last'.ran
          /\ missing => last'.status = 401 /\ ~last'.ran
          /\ notActive => last'.status = 403 /\ ~last'.ran]_vars

\* a verifying token whose account has been deleted was answered 401
W10_DeletedAccountToken ==
  /\ last.route \notin {"login", "none"}
  /\ last.bearer \in tokens
  /\ last.at < last.bearer.exp
  /\ last.bearer.staffId \notin DOMAIN staff
  /\ last.status = 401

\* the scope requirePermission(...) is mounted with on a route; <<>> on the
\* routes that have none
RoutePermission(route) ==
  CASE route \in {"list", "read"} -> <<"staff", "read">>
    [] route = "create" -> <<"staff", "create">>
    [] route \in {"update", "role.assign", "role.remove"} -> <<"staff", "update">>
    [] route = "delete" -> <<"staff", "delete">>
    [] OTHER -> <<>>

\* C11: on a route gated on resource:action, a request that passed
\* authenticateStaff with scope set S reaches the controller iff S contains "*",
\* or resource:action itself, or resource:*; otherwise it is answered 403
\* Insufficient permissions and the controller does not run
C11_ThreeTierMatch ==
  [][(GatedStep /\ RoutePermission(last'.route) # <<>> /\ last'.reqStaff # NoStaff) =>
       LET S == last'.bearer.permissions
           p == RoutePermission(last'.route)
       IN IF <<"*">> \in S \/ p \in S \/ <<p[1], "*">> \in S
          THEN last'.ran
          ELSE ~last'.ran /\ last'.status = 403
               /\ last'.error = "Insufficient permissions"]_vars

\* a request got through on the resource wildcard alone
W11_ResourceWildcardPermits ==
  /\ RoutePermission(last.route) # <<>>
  /\ last.ran
  /\ <<"*">> \notin last.bearer.permissions
  /\ RoutePermission(last.route) \notin last.bearer.permissions
  /\ <<"staff", "*">> \in last.bearer.permissions

\* the action name logActivity is mounted with on a route
ActionOf(route) ==
  CASE route = "login" -> "staff.login"
    [] route = "password" -> "staff.profile.password"
    [] route = "create" -> "staff.create"
    [] route = "update" -> "staff.update"
    [] route = "delete" -> "staff.delete"
    [] route = "role.assign" -> "staff.role.assign"
    [] route = "role.remove" -> "staff.role.remove"
    [] OTHER -> NA

\* C12: every call to a mutating endpoint (login, password change, staff
\* create, update, delete, role assign, role remove), answered by the controller
\* or rejected by the authentication or permission check, gets exactly one
\* audit entry, whose outcome is the status class of the response
C12_EveryMutatingCallLogged ==
  [][(RequestStep /\ ActionOf(last'.route) # NA) =>
       /\ Len(pending') = 1
       /\ pending'[1].action = ActionOf(last'.route)
       /\ pending'[1].status = (IF last'.status < 400 THEN "success" ELSE "error")]_vars

\* C13: the process ends (SIGTERM, SIGINT) only with every scheduled audit
\* write done: no callback is still pending once it is down
C13_ShutdownDrains == ~up => pending = <<>>

\* C14: the audit callback, whether its INSERT succeeds or fails, leaves the
\* answered request and the store as they are, ends with the process still
\* running (the failure is caught) and with its entry off the queue (no
\* second attempt)
C14_LogFailureIsolated ==
  [][(pending # <<>> /\ pending' # pending) =>
       /\ last' = last
       /\ staff' = staff /\ assignments' = assignments /\ tokens' = tokens
       /\ up'
       /\ pending' = Tail(pending)
       /\ log' \in {log, Append(log, Head(pending))}]_vars

\* the audit write of an answered request failed although the table had room
W14_WriteFailed ==
  /\ last.ran
  /\ last.status = 200
  /\ pending = <<>>
  /\ log = <<>>
  /\ logRoom = MaxLogged
  /\ up

\* C15: the activity log is append-only: a step never removes a row nor changes
\* a field of a row that is there, its staff id included
C15_AppendOnly ==
  [][/\ Len(log') >= Len(log)
     /\ \A k \in 1..Len(log) : log'[k] = log[k]]_vars

\* the scopes of the roles assigned to a staff member in asg, stated over the
\* seeded role table
Resolved(asg, i) ==
  {sc \in UNION {Roles[r] : r \in DOMAIN Roles} :
     \E a \in asg : a.staffId = i /\ sc \in Roles[a.roleId]}

\* a scope set lets a request for scope p through
Lets(S, p) == <<"*">> \in S \/ p \in S \/ <<p[1], "*">> \in S

\* C16: the permission decision of a request follows the scopes in its token,
\* also when the roles of the account have changed since the token was issued;
\* a token carries the scopes the account had at the login that issued it
C16_DecisionByTokenScopes ==
  /\ [][(/\ GatedStep /\ RoutePermission(last'.route) # <<>>
         /\ last'.reqStaff # NoStaff
         /\ last'.bearer.permissions # Resolved(assignments, last'.bearer.staffId))
        => (last'.ran <=> Lets(last'.bearer.permissions, RoutePermission(last'.route)))]_vars
  /\ [][(LoginStep /\ last'.token # NoToken) =>
          last'.token.permissions = Resolved(assignments, last'.token.staffId)]_vars

\* a token issued before a role granting staff:read was assigned is still
\* refused on GET /
W16_OldTokenStillRefused ==
  /\ last.route = "list"
  /\ last.status = 403
  /\ last.error = "Insufficient permissions"
  /\ last.bearer.permissions = {}
  /\ <<"staff", "read">> \in Resolved(assignments, last.bearer.staffId)

\* C17: a successful role assignment is stored; a login issues a token whose
\* scopes are the scopes of the roles assigned at that login; GET / (gated on
\* staff:read) answers 403 to a token without scopes and runs for a token whose
\* scopes hold staff:read
C17_AssignThenRelogin ==
  /\ [][(GatedStep /\ last'.route = "role.assign" /\ last'.status = 200) =>
          \E a \in assignments' :
            a.staffId = last'.target /\ a.roleId = last'.roleId]_vars
  /\ [][(LoginStep /\ last'.token # NoToken) =>
          \A sc \in UNION {Roles[r] : r \in DOMAIN Roles} :
            sc \in last'.token.permissions <=>
              \E a \in assignments :
                a.staffId = last'.token.staffId /\ sc \in Roles[a.roleId]]_vars
  /\ [][(GatedStep /\ last'.route = "list" /\ last'.reqStaff # NoStaff) =>
          /\ last'.bearer.permissions = {} =>
                last'.status = 403 /\ ~last'.ran
          /\ <<"staff", "read">> \in last'.bearer.permissions =>
                last'.status = 200 /\ last'.ran]_vars

\* the account holds its first token, without scopes, and a second one from a
\* login after the assignment, with which GET / succeeded
W17_SecondTokenReads ==
  /\ last.route = "list"
  /\ last.status = 200
  /\ last.bearer.staffId # ADMIN_ID
  /\ <<"staff", "read">> \in last.bearer.permissions
  /\ \E old \in tokens :
       old.staffId = last.bearer.staffId /\ old.permissions = {}

C18_ExpiredLikeForged ==
  /\ [][(GatedStep /\ last'.bearer # NoBearer
         /\ (last'.bearer \notin tokens \/ now >= last'.bearer.exp))
        => /\ last'.status = 401
           /\ last'.error = "Invalid or expired authentication token"
           /\ ~last'.ran]_vars
  /\ [][(LoginStep /\ last'.token # NoToken) =>
          /\ last'.token.staffId \in DOMAIN staff
          /\ last'.token.email = staff[last'.token.staffId].email
          /\ last'.token.email = last'.email
          /\ last'.token.exp = now + TokenLifetime]_vars
  /\ [][(GatedStep /\ last'.bearer \in tokens /\ now < last'.bearer.exp
         /\ last'.bearer.staffId \in DOMAIN staff
         /\ staff[last'.bearer.staffId].status = "active")
        => /\ last'.reqStaff.id = last'.bearer.staffId
           /\ last'.reqStaff.email = last'.bearer.email
           /\ last'.reqStaff.permissions = last'.bearer.permissions]_vars

\* a token login issued was refused after its lifetime, as a forged one is
W18_ExpiredTokenRefused ==
  /\ last.route \notin {"login", "none"}
  /\ last.bearer \in tokens
  /\ last.at >= last.bearer.exp
  /\ last.status = 401
  /\ last.error = "Invalid or expired authentication token"
  /\ ~last.ran

\* C19: a well-formed login naming no account, and one naming an active, not
\* locked account with a wrong password, are both answered 401 with the
\* message "Invalid email or password" and without a token
C19_NoEmailOracle ==
  [][(/\ LoginStep
      /\ IsEmail(last'.email) /\ Len(last'.password) >= 1
      /\ \/ Named(staff, last'.email) = {}
         \/ \E i \in Named(staff, last'.email) :
              FailedAttempt(staff, i, last'.password, now))
     => /\ last'.status = 401
        /\ last'.error = "Invalid email or password"
        /\ last'.token = NoToken]_vars

\* a login naming no account was answered 401 after a wrong password for an
\* existing account had been
W19_UnknownEmailRejected ==
  /\ last.route = "login"
  /\ IsEmail(last.email)
  /\ Named(staff, last.email) = {}
  /\ last.status = 401
  /\ \E i \in DOMAIN staff :
       staff[i].failedLoginAttempts > 0 /\ staff[i].lockedUntil = NULL

\* C21: there is never more than one assignment of a role to a staff member,
\* and assigning a role the member already has is answered 200 and leaves the
\* assignments as they are
C21_AssignIdempotent ==
  /\ [](\A a, b \in assignments :
          (a.staffId = b.staffId /\ a.roleId = b.roleId) => a = b)
  /\ [][(/\ GatedStep /\ last'.route = "role.assign" /\ last'.ran
         /\ \E a \in assignments :
              a.staffId = last'.target /\ a.roleId = last'.roleId)
        => last'.status = 200 /\ assignments' = assignments]_vars

\* a member assigned a role that another member had assigned to it before
W21_AssignedTwice ==
  /\ last.route = "role.assign"
  /\ last.status = 200
  /\ \E a \in assignments :
       /\ a.staffId = last.target /\ a.roleId = last.roleId
       /\ a.assignedBy # last.reqStaff.id

C23_ChangeNeedsCurrentPassword ==
  [][(/\ GatedStep /\ last'.route = "password" /\ last'.reqStaff # NoStaff
      /\ \E i \in Named(staff, last'.bearer.email) :
           ~verifyPassword(last'.password, staff[i].passwordHash))
     => /\ last'.status >= 400
        /\ (Len(last'.password) >= 1 /\ Len(last'.newPassword) >= 8)
             => last'.status = 401
        /\ \A i \in DOMAIN staff :
             /\ i \in DOMAIN staff'
             /\ staff'[i].passwordHash = staff[i].passwordHash
             /\ staff'[i].passwordChangedAt = staff[i].passwordChangedAt]_vars

\* a password change with a wrong current password was refused
W23_WrongCurrentRefused ==
  /\ last.route = "password"
  /\ last.status = 401
  /\ last.verified = "mismatch"
  /\ \A i \in DOMAIN staff : staff[i].passwordChangedAt = NULL

\* the email in lower case, over the emails of the model
LowerCase(email) ==
  CASE email = "Admin@akaind.ca" -> "admin@akaind.ca"
    [] OTHER -> email

\* C24: no two staff accounts have emails that are equal up to letter case
C24_EmailUniqueIgnoringCase ==
  \A i, j \in DOMAIN staff :
    i # j => LowerCase(staff[i].email) # LowerCase(staff[j].email)

\* C25: a well-formed login whose email equals the email of an account up to
\* letter case finds that account: it is the account whose password is checked
C25_LookupIgnoresCase ==
  [][(/\ LoginStep /\ IsEmail(last'.email) /\ Len(last'.password) >= 1)
     => \A i \in DOMAIN staff :
          LowerCase(staff[i].email) = LowerCase(last'.email)
            => last'.found # NoRow /\ last'.found.id = i]_vars

\* C26: a create request answered while an account with its email exists
\* creates no account and is answered 409 (conflict), also when the account
\* was created by a concurrent request after this one had checked the email
C26_DuplicateCreateConflicts ==
  [][(/\ GatedStep /\ last'.route = "create" /\ last'.ran
      /\ createStaffSchema(last'.email, last'.newPassword)
      /\ validatePassword(last'.newPassword).valid
      /\ Named(staff, last'.email) # {})
     => staff' = staff /\ last'.status = 409]_vars

\* C27: the audit entry scheduled for a request the controller answered names
\* the staff member behind the request: the holder of the bearer token on the
\* protected routes, the account that logged in on a successful login; it has
\* no staff id only for a login that named no account
C27_EntryNamesStaff ==
  [][(RequestStep /\ last'.ran) =>
       /\ Len(pending') = 1
       /\ last'.route # "login" => pending'[1].staffId = last'.bearer.staffId
       /\ (last'.route = "login" /\ last'.status = 200)
            => pending'[1].staffId = last'.token.staffId
       /\ pending'[1].staffId = NULL
            => (last'.route = "login" /\ last'.found = NoRow)]_vars

\* C28: the outcome recorded for an answered request is "success" exactly
\* when the response status is below 400, and "error" otherwise; the row the
\* callback writes has the outcome that was scheduled
C28_OutcomeFollowsStatus ==
  [][/\ (RequestStep /\ last'.ran) =>
          /\ Len(pending') = 1
          /\ pending'[1].status \in {"success", "error"}
          /\ pending'[1].status = "success" <=> last'.status < 400
     /\ (pending # <<>> /\ Len(log') > Len(log)) =>
          log'[Len(log')].status = Head(pending).status]_vars

\* a refused login was recorded as an error
W28_ErrorRecorded ==
  /\ last.route = "login"
  /\ last.status = 401
  /\ Len(log) = 1
  /\ log[1].status = "error"
  /\ log[1].action = "staff.login"

\* C29: a request to a protected route with a correctly signed, unexpired
\* token, made while the store cannot be queried, is answered with a server
\* error (5xx), not with an authentication error, and its controller does not
\* run
C29_StoreFailureIsServerError ==
  [][(/\ GatedStep /\ last'.route # "optional" /\ creating' = creating
      /\ TokenVerifies(last'.bearer, now) /\ ~dbUp)
     => last'.status >= 500 /\ ~last'.ran]_vars

\* C30: optionalAuth passes every request on exactly once and changes nothing;
\* it attaches an identity, the one in the token, only when the token verifies
\* and its account exists with status "active"
C30_OptionalAuthPassesOnce ==
  [][(RequestStep /\ last'.route = "optional") =>
       /\ last'.nexts = 1
       /\ <<staff', assignments', tokens', pending'>> = <<staff, assignments, tokens, pending>>
       /\ last'.reqStaff # NoStaff =>
            /\ TokenVerifies(last'.bearer, now)
            /\ last'.bearer.staffId \in DOMAIN staff
            /\ staff[last'.bearer.staffId].status = "active"
            /\ last'.reqStaff.id = last'.bearer.staffId]_vars

\* a request with the unexpired token of a suspended account went through
\* optionalAuth without an identity
W30_SuspendedPassedAnonymous ==
  /\ last.route = "optional"
  /\ last.nexts = 1
  /\ last.reqStaff = NoStaff
  /\ TokenVerifies(last.bearer, now)
  /\ dbUp
  /\ last.bearer.staffId \in DOMAIN staff
  /\ staff[last.bearer.staffId].status = "suspended"

Violates(pw) ==
  \/ Len(pw) < 8
  \/ \A i \in 1..Len(pw) : pw[i] \notin Upper
  \/ \A i \in 1..Len(pw) : pw[i] \notin Lower
  \/ \A i \in 1..Len(pw) : pw[i] \notin Digit
  \/ \A i \in 1..Len(pw) : pw[i] \in Upper \cup Lower \cup Digit

C35_OneAttemptPerLockout ==
  [][LoginStep =>
       \A i \in Named(staff, last'.email) :
         (/\ staff[i].lockedUntil # NULL
          /\ staff[i].lockedUntil <= now
          /\ staff[i].status = "active"
          /\ Len(last'.password) >= 1
          /\ ~verifyPassword(last'.password, staff[i].passwordHash))
         => /\ staff[i].failedLoginAttempts >= 5
            /\ last'.status = 401
            /\ staff'[i].failedLoginAttempts = staff[i].failedLoginAttempts + 1
            /\ staff'[i].lockedUntil = now + 30
            /\ staff'[i].lockedUntil > now]_vars

\* a wrong password after the lockout had run out locked the account again
W35_LockedAgain ==
  /\ last.route = "login"
  /\ last.status = 401
  /\ last.found.found
  /\ last.found.lockedUntil # NULL
  /\ last.found.lockedUntil <= last.at
  /\ last.found.failedLoginAttempts = 5
  /\ staff[last.found.id].failedLoginAttempts = 6
  /\ staff[last.found.id].lockedUntil = last.at + 30

\* C36: a well-formed login naming an account that is not locked and whose
\* status is not "active" is answered 403 "Account is not active" without the
\* password being verified and without a token, and leaves the staff table
\* (counter, lockout-expiry, last login) as it was, whatever the password
C36_InactiveLoginNoEffect ==
  [][LoginStep =>
       \A i \in Named(staff, last'.email) :
         (/\ staff[i].status # "active"
          /\ ~LockedAt(staff[i], now)
          /\ Len(last'.password) >= 1)
         => /\ last'.status = 403
            /\ last'.error = "Account is not active"
            /\ last'.verified = "skipped"
            /\ last'.token = NoToken
            /\ tokens' = tokens
            /\ staff' = staff]_vars

\* a login with a wrong password for a suspended account was refused as not
\* active, and the counter did not move
W36_SuspendedWrongPassword ==
  /\ last.route = "login"
  /\ last.status = 403
  /\ last.error = "Account is not active"
  /\ last.found.found
  /\ last.found.status = "suspended"
  /\ ~verifyPassword(last.password, last.found.passwordHash)
  /\ staff[last.found.id].failedLoginAttempts = last.found.failedLoginAttempts
  /\ staff[last.found.id].lockedUntil = last.found.lockedUntil

\* C37: a delete request whose target is the account of the authenticated
\* caller is rejected (400 when the controller runs) and removes no row and no
\* assignment; after a delete answered 200 the account of its caller exists
C37_NoSelfDeletion ==
  [][(GatedStep /\ last'.route = "delete") =>
       /\ (last'.reqStaff.id # NULL /\ last'.target = last'.reqStaff.id) =>
            /\ last'.status >= 400
            /\ last'.ran => last'.status = 400
            /\ staff' = staff
            /\ assignments' = assignments
       /\ last'.status = 200 =>
            /\ last'.reqStaff.id \in DOMAIN staff'
            /\ last'.target \notin DOMAIN staff'
            /\ last'.target \in DOMAIN staff]_vars

\* the administrator asked to delete the administrator's account and was refused
W37_SelfDeletionRefused ==
  /\ last.route = "delete"
  /\ last.ran
  /\ last.status = 400
  /\ last.error = "Cannot delete your own account"
  /\ last.target = last.reqStaff.id
  /\ last.target \in DOMAIN staff

\* C34: every login attempt that fails password verification, whatever ran
\* between its read of the account and its write, adds exactly one to the
\* counter the account has at the time of the write; and an account whose
\* counter is 5 or more has a lockout-expiry
C34_NoLostIncrement ==
  /\ [](\A i \in DOMAIN staff :
          staff[i].failedLoginAttempts >= 5 => staff[i].lockedUntil # NULL)
  /\ [][(/\ LoginStep /\ last'.found # NoRow /\ last'.status = 401
         /\ ~verifyPassword(last'.password, last'.found.passwordHash)
         /\ last'.found.id \in DOMAIN staff)
        => LET i == last'.found.id IN
           /\ staff'[i].failedLoginAttempts = staff[i].failedLoginAttempts + 1
           /\ staff'[i].failedLoginAttempts >= 5 => staff'[i].lockedUntil = now + 30]_vars

\* a failed attempt wrote after another attempt, in flight at the same time,
\* had counted: the row it had read was one increment behind
W34_CountedAfterStaleRead ==
  /\ last.route = "login"
  /\ last.status = 401
  /\ last.found # NoRow
  /\ last.found.id \in DOMAIN staff
  /\ staff[last.found.id].failedLoginAttempts = last.found.failedLoginAttempts + 2

\* 2^n
RECURSIVE Pow2(_)
Pow2(n) == IF n = 0 THEN 1 ELSE 2 * Pow2(n - 1)

Opens == \E k \in 1..Len(mcp.sockets) : mcp.sockets[k] # "open" /\ mcp'.sockets[k] = "open"

\* C38: while the manager has no session, after a leaveSession that found its
\* socket open and before the next createSession or joinSession, no step
\* schedules a reconnection, opens or constructs a WebSocket, or starts a
\* heartbeat timer
C38_StaysDisconnected ==
  [][(/\ mcp.session = "none" /\ mcp'.session = "none"
      /\ mcp.timers = 0
      /\ \A k \in 1..Len(mcp.sockets) : mcp.sockets[k] \in {"closing", "closed"}) =>
       /\ mcp'.timers <= mcp.timers
       /\ mcp'.reconnectAttempts = mcp.reconnectAttempts
       /\ Len(mcp'.sockets) = Len(mcp.sockets)
       /\ ~Opens
       /\ mcp'.intervals <= mcp.intervals
       /\ mcp'.ws = 0]_vars

\* C39: the count of reconnection attempts is never above 5; a reconnection
\* is scheduled only with a count below 5, which it raises by one; the count
\* goes down only by a socket opening, which sets it to 0; with the count at
\* 5 nothing is scheduled
C39_ReconnectBounded ==
  /\ [](mcp.reconnectAttempts \in 0..5)
  /\ [][/\ ((mcp'.timers > mcp.timers)
              => (/\ mcp.reconnectAttempts < 5
                  /\ mcp'.reconnectAttempts = mcp.reconnectAttempts + 1
                  /\ mcp'.timers = mcp.timers + 1))
        /\ (Opens => (mcp'.reconnectAttempts = 0))
        /\ ((mcp'.reconnectAttempts < mcp.reconnectAttempts) => Opens)
        /\ ((mcp'.reconnectAttempts > mcp.reconnectAttempts)
              => (mcp'.timers > mcp.timers))]_vars

\* five reconnections in a row failed and the manager gave up: no timer is
\* pending and every socket is closed
W39_GaveUp ==
  /\ mcp.reconnectAttempts = 5
  /\ mcp.timers = 0
  /\ Len(mcp.sockets) = 6
  /\ \A k \in 1..Len(mcp.sockets) : mcp.sockets[k] = "closed"

\* the onboarding has everything complete() asks for
Recorded ==
  /\ flow.profile
  /\ flow.verification.emailVerified
  /\ flow.verification.phoneVerified
  /\ flow.verification.businessVerified
  /\ flow.appSubmission
  /\ flow.revenueShare

\* C40: whenever the flow is completed, its current step is 'complete' and a
\* profile, the three verifications, an app submission and a revenue-share
\* agreement are recorded
C40_CompletedIsFinal ==
  flow.completed => (flow.currentStep = "complete" /\ Recorded)

====
